---- MODULE Spec2Model ----
(***************************************************************************)
(* sflearn: L*-style inference of Mealy machines and of transducers with   *)
(* bounded lookahead (sflearn/angluin_fst.py, angluin_fst_lookahead.py)    *)
(* and the Transducer they produce (sflearn/transducer.py).                *)
(*                                                                         *)
(* Python lists and tuples are sequences; list index k is sequence index   *)
(* k+1.  State ids, cursors and slice bounds keep their 0-based values.    *)
(***************************************************************************)
EXTENDS Integers, Sequences, FiniteSets, TLC

VARIABLES
    \* ---- the learner object (MealyMachineLearner / TransducerLearner) ----
    learner,          \* "mealy" or "lookahead": which class is running
    ce_processing,    \* CE_SG or CE_RS (constructor argument, Mealy learner)
    target,           \* index into Targets: the black box behind membership_query
    access_strings,   \* ot.access_strings  (S)
    transitions,      \* ot.transitions     (T)
    dist_strings,     \* ot.dist_strings    (E)
    lookaheads,       \* ot.lookaheads      (L), kept in the set's iteration order
    ot,               \* ot.ot : row -> (col -> output suffix)
    equiv_classes,    \* ot.equiv_classes : row -> access string
    hypothesis,       \* self._hypothesis (None before the first construction)
    pc,               \* position inside learn_mealy_machine / learn_transducer
    closed,           \* local `closed` of the learn loop
    escaping_str,     \* local `escaping_str` of the learn loop
    found,            \* local `found` : answer of the last equivalence query
    ce,               \* local `ce` : the last counterexample
    ret,              \* value returned by learn_* (None while running)
    exc,              \* the exception that ended learn_*, "" when none
    eqs,              \* number of counterexamples handed out so far
    file,             \* text written by Transducer.save
    loaded,           \* fresh Transducer after load(file)
    \* ---- a free-standing Transducer driven by its public methods ----
    trd,              \* the Transducer object
    cin,              \* argument of the last consume_input call
    cout,             \* its outcome
    \* ---- a membership oracle that records the calls it receives ----
    queries           \* the arguments of the membership_query calls, in order

vars == << learner, ce_processing, target, access_strings, transitions,
           dist_strings, lookaheads, ot, equiv_classes, hypothesis, pc, closed,
           escaping_str, found, ce, ret, exc, eqs, file, loaded, trd, cin, cout,
           queries >>

learnerVars == << learner, ce_processing, target, access_strings, transitions,
                  dist_strings, lookaheads, ot, equiv_classes, hypothesis, pc,
                  closed, escaping_str, found, ce, ret, exc, eqs, file, loaded >>

trdVars == << trd, cin, cout >>

-----------------------------------------------------------------------------
(* Program constants *)

EPSILON == 65535

CE_SG == 0

CE_RS == 1

\* Python's None where a word is expected (no word holds a negative symbol)
None == << -1 >>

-----------------------------------------------------------------------------
(* Bounds of the model *)

\* longest counterexample the equivalence oracle hands out
MaxCeLen == 3

\* number of counterexamples the equivalence oracle hands out in one run
MaxEq == 2

\* number of add_arc calls on the free-standing transducer
MaxArcs == 2

\* longest input word handed to consume_input
MaxWordLen == 3

-----------------------------------------------------------------------------
(* Python list helpers *)

Min(a, b) == IF a <= b THEN a ELSE b

Max(a, b) == IF a >= b THEN a ELSE b

\* w[a:b] for 0 <= a, with b clipped to len(w) as Python does
Slice(w, a, b) == SubSeq(w, a + 1, Min(b, Len(w)))

\* w[a:]
From(w, a) == SubSeq(w, a + 1, Len(w))

\* x in lst
InList(x, lst) == \E k \in 1..Len(lst) : lst[k] = x

\* lst.index(x) (0-based; only used when x in lst)
IndexOf(x, lst) == (CHOOSE k \in 1..Len(lst) :
                        lst[k] = x /\ \A j \in 1..(k-1) : lst[j] # x) - 1

IsPrefixOf(p, w) == Len(p) <= Len(w) /\ SubSeq(w, 1, Len(p)) = p

RECURSIVE CommonLen(_, _, _)
CommonLen(a, b, k) ==
    IF k < Len(a) /\ k < Len(b) /\ a[k+1] = b[k+1]
    THEN CommonLen(a, b, k + 1)
    ELSE k

\* os.path.commonprefix([a, b]) for two lists
commonprefix(a, b) == SubSeq(a, 1, CommonLen(a, b, 0))

\* all words over the symbols of alphabet list I with length in lo..hi
WordsOver(I, lo, hi) ==
    UNION { [1..n -> {I[k] : k \in 1..Len(I)}] : n \in lo..hi }

-----------------------------------------------------------------------------
(* transducer.py : FstState, FstArc, Transducer *)

FstState(sid, initial) ==
    [stateid |-> sid, initial |-> initial, final |-> TRUE, arcs |-> <<>>]

FstArc(srcstate, dststate, ilabel, olabel) ==
    [ilabel |-> ilabel, olabel |-> olabel,
     nextstate |-> dststate, srcstate |-> srcstate]

\* Transducer.__init__
Transducer == [states |-> << FstState(0, TRUE) >>, I |-> {}]

\* Python's None where a Transducer is expected (a Transducer always has state 0)
NoTransducer == [states |-> <<>>, I |-> {}]

\* a plausible slip: range(len(self.states), s_idx+2), one state too many
GrowStatesOneMore(states, s_idx) ==
    IF s_idx >= Len(states)
    THEN [k \in 1..(s_idx + 2) |->
            IF k <= Len(states) THEN states[k] ELSE FstState(k - 1, FALSE)]
    ELSE states

\* the loop `for i in range(len(self.states), s_idx+1): append(FstState(i))`
GrowStates(states, s_idx) ==
    IF s_idx >= Len(states)
    THEN [k \in 1..(s_idx + 1) |->
            IF k <= Len(states) THEN states[k] ELSE FstState(k - 1, FALSE)]
    ELSE states

\* Transducer.add_arc
add_arc(t, src, dst, inp, out) ==
    LET grown == GrowStates(GrowStates(t.states, src), dst)
    IN  [t EXCEPT !.states =
            [grown EXCEPT ![src + 1].arcs =
                Append(@, FstArc(src, dst, inp, out))]]

\* inp[i:i+len(arc.ilabel)] == arc.ilabel
ArcMatches(arc, inp, i) == Slice(inp, i, i + Len(arc.ilabel)) = arc.ilabel

RECURSIVE MaxILen(_)
MaxILen(arcs) ==
    IF arcs = <<>> THEN 0
    ELSE Max(Len(Head(arcs).ilabel), MaxILen(Tail(arcs)))

RECURSIVE ByLenAsc(_, _, _)
ByLenAsc(arcs, n, top) ==
    IF n > top THEN <<>>
    ELSE SelectSeq(arcs, LAMBDA a : Len(a.ilabel) = n) \o ByLenAsc(arcs, n + 1, top)

\* a plausible slip: reverse=True forgotten, shortest labels are tried first
sorted_arcs_ascending(arcs) == ByLenAsc(arcs, 0, MaxILen(arcs))

RECURSIVE ByLenDesc(_, _)
ByLenDesc(arcs, n) ==
    IF n < 0 THEN <<>>
    ELSE SelectSeq(arcs, LAMBDA a : Len(a.ilabel) = n) \o ByLenDesc(arcs, n - 1)

\* sorted(state.arcs, key=lambda x: len(x.ilabel), reverse=True): stable,
\* arcs of equal label length keep their insertion order
sorted_arcs(arcs) == ByLenDesc(arcs, MaxILen(arcs))

\* position (1-based) in `arcs` of the first arc matching at cursor i, 0 if none
FirstMatch(arcs, inp, i) ==
    IF \E k \in 1..Len(arcs) : ArcMatches(arcs[k], inp, i)
    THEN CHOOSE k \in 1..Len(arcs) :
            /\ ArcMatches(arcs[k], inp, i)
            /\ \A j \in 1..(k-1) : ~ArcMatches(arcs[j], inp, i)
    ELSE 0

\* a plausible slip: the output gathered so far is returned instead of raising
InvalidInputPartial(inp, out) == << "ok", out >>

\* outcome of `raise Exception('Invalid Input: {}'.format(inp))`
InvalidInput(inp, out) == << "invalid", inp >>

\* if arc.olabel != [EPSILON]: out.extend(arc.olabel)
Emit(out, olabel) == IF olabel # << EPSILON >> THEN out \o olabel ELSE out

\* the while loop of consume_input, from state index `state` and cursor i
RECURSIVE ConsumeLoop(_, _, _, _, _)

\* one iteration of the loop: arcs is the sorted arc list of the current
\* state, k the position in it of the first matching arc (0: none)
ConsumeStep(t, inp, i, out, arcs, k) ==
    IF k = 0 THEN InvalidInput(inp, out)
    ELSE ConsumeLoop(t, inp, arcs[k].nextstate, i + Len(arcs[k].ilabel),
                     Emit(out, arcs[k].olabel))

ConsumeFrom(t, inp, i, out, arcs) ==
    ConsumeStep(t, inp, i, out, arcs, FirstMatch(arcs, inp, i))

ConsumeLoop(t, inp, state, i, out) ==
    IF i = Len(inp) THEN << "ok", out >>
    ELSE ConsumeFrom(t, inp, i, out, sorted_arcs(t.states[state + 1].arcs))

\* Transducer.consume_input: << "ok", output >> or << "invalid", inp >>
consume_input(t, inp) == ConsumeLoop(t, inp, 0, 0, <<>>)

-----------------------------------------------------------------------------
(* transducer.py : the text format of save / load.  A text is a sequence   *)
(* of one-character strings, a line is the sequence of its whitespace-     *)
(* separated fields, a file is the sequence of its lines.                  *)

Digits == << "0", "1", "2", "3", "4", "5", "6", "7", "8", "9" >>

\* "{}".format(n) for an integer n >= 0
RECURSIVE FormatInt(_)
FormatInt(n) ==
    IF n < 10 THEN << Digits[n + 1] >>
    ELSE FormatInt(n \div 10) \o << Digits[(n % 10) + 1] >>

\* int(x) for a text of decimal digits
RECURSIVE ParseInt(_)
ParseInt(x) ==
    IF Len(x) = 1 THEN (CHOOSE d \in 0..9 : Digits[d + 1] = x[1])
    ELSE 10 * ParseInt(SubSeq(x, 1, Len(x) - 1))
         + (CHOOSE d \in 0..9 : Digits[d + 1] = x[Len(x)])

\* the text "c0,c1,...": first element, then ",{}" for each further one
RECURSIVE JoinLabel(_)
JoinLabel(label) ==
    IF Len(label) = 1 THEN FormatInt(label[1])
    ELSE JoinLabel(SubSeq(label, 1, Len(label) - 1))
         \o << "," >> \o FormatInt(label[Len(label)])

\* a plausible slip: an empty olabel is written as an empty field's stand-in 0
\* and the epsilon marker is written as 0 as well
SaveOutZero(otext) ==
    IF otext = <<>> \/ otext = << EPSILON >> THEN FormatInt(0) ELSE JoinLabel(otext)

\* lines 145-151: `if not otext: out = str(EPSILON)` else the joined label
SaveOut(otext) == IF otext = <<>> THEN FormatInt(EPSILON) ELSE JoinLabel(otext)

\* the lines written for one state: its arcs, then its id when it is final
StateLines(state) ==
    [k \in 1..Len(state.arcs) |->
        << FormatInt(state.stateid), FormatInt(state.arcs[k].nextstate),
           JoinLabel(state.arcs[k].ilabel), SaveOut(state.arcs[k].olabel) >>]
    \o (IF state.final THEN << << FormatInt(state.stateid) >> >> ELSE <<>>)

RECURSIVE ConcatLines(_)
ConcatLines(states) ==
    IF states = <<>> THEN <<>>
    ELSE StateLines(Head(states)) \o ConcatLines(Tail(states))

\* sorted(self.states, key=attrgetter('initial'), reverse=True): stable
StatesInitialFirst(states) ==
    SelectSeq(states, LAMBDA s : s.initial) \o SelectSeq(states, LAMBDA s : ~s.initial)

\* Transducer.save: the file's lines
save(t) == ConcatLines(StatesInitialFirst(t.states))

\* x.split(',') for a text x
RECURSIVE SplitComma(_, _, _)
SplitComma(x, k, cur) ==
    IF k > Len(x) THEN << cur >>
    ELSE IF x[k] = "," THEN << cur >> \o SplitComma(x, k + 1, <<>>)
    ELSE SplitComma(x, k + 1, Append(cur, x[k]))

\* [int(x) for x in field.split(',')]
ParseLabel(field) ==
    LET parts == SplitComma(field, 1, <<>>)
    IN  [k \in 1..Len(parts) |-> ParseInt(parts[k])]

\* one iteration of the loop of load on r = << status, transducer >>; the
\* status becomes "IndexError" when a final-state line names a state the
\* transducer does not have (self.states[i] raises) and the load stops there
LoadLine(r, arc_entry) ==
    LET t == r[2]
    IN  IF r[1] # "ok" THEN r
        ELSE IF Len(arc_entry) = 1
        THEN LET sid == ParseInt(arc_entry[1])
             IN  IF sid >= Len(t.states) THEN << "IndexError", t >>
                 ELSE << "ok", [t EXCEPT !.states[sid + 1].final = TRUE] >>
        ELSE LET ilabel == ParseLabel(arc_entry[3])
                 olabel == ParseLabel(arc_entry[4])
                 added  == add_arc(t, ParseInt(arc_entry[1]),
                                   ParseInt(arc_entry[2]), ilabel, olabel)
             IN  << "ok", [added EXCEPT !.I =
                              @ \cup {ilabel[k] : k \in 1..Len(ilabel)}] >>

RECURSIVE LoadLines(_, _)
LoadLines(r, lines) ==
    IF lines = <<>> THEN r
    ELSE LoadLines(LoadLine(r, Head(lines)), Tail(lines))

\* Transducer.load on a transducer t: << "ok" or "IndexError", t after load >>
load(t, lines) == LoadLines(<< "ok", t >>, lines)

-----------------------------------------------------------------------------
(* The black boxes to learn.  As in examples/basic_lookahead.py the target *)
(* is itself a Transducer and a membership query runs it.                  *)

\* the alphabet of examples/htmlencoder.py cut down to the characters
\* '<', '>', '&' and 'a', as their character codes
HtmlAlphabet == << 60, 62, 38, 97 >>

\* the input alphabet handed to the learner's constructor: the one the
\* target is defined over (WideTarget knows one symbol more)
I == IF target = 6 THEN HtmlAlphabet ELSE << 0, 1 >>

\* MQ(w) = w
IdentityTarget ==
    add_arc(add_arc(Transducer, 0, 0, <<0>>, <<0>>), 0, 0, <<1>>, <<1>>)

\* a three-state Mealy machine: 1 moves 0 -> 1 -> 2 -> 0 and is copied,
\* 0 is copied in states 0 and 1 and dropped in state 2
CounterTarget ==
    add_arc(add_arc(add_arc(add_arc(add_arc(add_arc(Transducer,
        0, 0, <<0>>, <<0>>), 0, 1, <<1>>, <<1>>),
        1, 1, <<0>>, <<0>>), 1, 2, <<1>>, <<1>>),
        2, 2, <<0>>, <<EPSILON>>), 2, 0, <<1>>, <<1>>)

\* the idempotent encoder of examples/basic_lookahead.py over {0, 1}:
\* 0 is encoded as 0 1 1, an already encoded 0 1 1 is left alone
EscapeTarget ==
    add_arc(add_arc(add_arc(Transducer,
        0, 0, <<1>>, <<1>>), 0, 0, <<0>>, <<0, 1, 1>>),
        0, 0, <<0, 1, 1>>, <<0, 1, 1>>)

\* a filter that deletes every occurrence of 0 1 and copies everything else
DeleteTarget ==
    add_arc(add_arc(add_arc(Transducer,
        0, 0, <<0>>, <<0>>), 0, 0, <<1>>, <<1>>),
        0, 0, <<0, 1>>, <<EPSILON>>)

\* a context-free target: every 0 is doubled and every 1 is dropped
DoublingTarget ==
    add_arc(add_arc(Transducer, 0, 0, <<0>>, <<0, 0>>), 0, 0, <<1>>, << EPSILON >>)

\* cgi.escape on HtmlAlphabet: '<' -> "&lt;", '>' -> "&gt;", '&' -> "&amp;",
\* 'a' unchanged
HtmlEscapeTarget ==
    add_arc(add_arc(add_arc(add_arc(Transducer,
        0, 0, <<60>>, <<38, 108, 116, 59>>),
        0, 0, <<62>>, <<38, 103, 116, 59>>),
        0, 0, <<38>>, <<38, 97, 109, 112, 59>>),
        0, 0, <<97>>, <<97>>)

\* a target whose second state is entered by a two-symbol arc only: 0 1 is
\* rewritten to 1 and from then on every symbol is inverted
SwitchTarget ==
    add_arc(add_arc(add_arc(add_arc(add_arc(Transducer,
        0, 0, <<0>>, <<0>>), 0, 0, <<1>>, <<1>>), 0, 1, <<0, 1>>, <<1>>),
        1, 1, <<0>>, <<1>>), 1, 1, <<1>>, <<0>>)

\* a one-state target with a lookahead inside a lookahead: 0 1 is rewritten
\* to 1, and 0 1 1 to 0 0
NestedTarget ==
    add_arc(add_arc(add_arc(add_arc(Transducer,
        0, 0, <<0>>, <<0>>), 0, 0, <<1>>, <<1>>), 0, 0, <<0, 1>>, <<1>>),
        0, 0, <<0, 1, 1>>, <<0, 0>>)

\* a symbol the targets may know and the learner's alphabet I lacks
ForeignSymbol == 2

\* DeleteTarget over a wider alphabet than the learner is given: it also
\* copies ForeignSymbol
WideTarget == add_arc(DeleteTarget, 0, 0, << ForeignSymbol >>, << ForeignSymbol >>)

\* a two-state Mealy machine: every 1 toggles between copying and
\* inverting the symbols
ToggleTarget ==
    add_arc(add_arc(add_arc(add_arc(Transducer,
        0, 0, <<0>>, <<0>>), 0, 1, <<1>>, <<1>>),
        1, 1, <<0>>, <<1>>), 1, 0, <<1>>, <<0>>)

\* a three-state Mealy machine whose states 1 and 2 answer every single
\* symbol alike and differ on words of length two
BranchTarget ==
    add_arc(add_arc(add_arc(add_arc(add_arc(add_arc(Transducer,
        0, 1, <<0>>, <<0>>), 0, 2, <<1>>, <<0>>),
        1, 1, <<0>>, <<1>>), 1, 1, <<1>>, <<1>>),
        2, 0, <<0>>, <<1>>), 2, 2, <<1>>, <<1>>)

\* a four-state Mealy machine in which only state 2 answers a single symbol
\* differently and state 3 differs from state 0 just on words that begin
\* with 1 0 or 1 1
TwinTarget ==
    add_arc(add_arc(add_arc(add_arc(add_arc(add_arc(add_arc(add_arc(Transducer,
        0, 1, <<0>>, <<0>>), 1, 2, <<0>>, <<0>>), 0, 3, <<1>>, <<0>>),
        1, 0, <<1>>, <<0>>), 2, 2, <<0>>, <<1>>), 2, 0, <<1>>, <<0>>),
        3, 1, <<0>>, <<0>>), 3, 2, <<1>>, <<0>>)

\* a two-state Mealy machine that answers every symbol with the symbol read
\* before it (0 for the first)
DelayTarget ==
    add_arc(add_arc(add_arc(add_arc(Transducer,
        0, 0, <<0>>, <<0>>), 0, 1, <<1>>, <<0>>),
        1, 0, <<0>>, <<1>>), 1, 1, <<1>>, <<1>>)

Targets ==
    << IdentityTarget, CounterTarget, EscapeTarget, DeleteTarget, DoublingTarget,
       HtmlEscapeTarget, SwitchTarget, NestedTarget, WideTarget, ToggleTarget,
       BranchTarget, TwinTarget, DelayTarget >>

\* membership_query: the output of the target on inp
membership_query(inp) == consume_input(Targets[target], inp)[2]

-----------------------------------------------------------------------------
(* _ObservationTable and the table operations of the two learners *)

\* _ObservationTable.__setitem__
OtSet(otf, row, col, value) ==
    IF row \in DOMAIN otf
    THEN [otf EXCEPT ![row] = (col :> value) @@ @]
    ELSE (row :> (col :> value)) @@ otf

\* a plausible slip: full_output[len(prefix):], as if the output of the row
\* were always a prefix of the output of row + col
AfterWholePrefix(prefix, full_output) ==
    From(full_output, Min(Len(prefix), Len(full_output)))

\* full_output[common_prefix_len:] for the common prefix of prefix and
\* full_output
AfterCommonPrefix(prefix, full_output) ==
    From(full_output, Len(commonprefix(prefix, full_output)))

\* a plausible slip: the whole output of row + col is stored, prefix included
CellWhole(row, col) == membership_query(row \o col)

\* the value _fill_ot_entry(row, col) stores
Cell(row, col) ==
    AfterCommonPrefix(membership_query(row), membership_query(row \o col))

\* _fill_ot_entry
fill_ot_entry(otf, row, col) == OtSet(otf, row, col, Cell(row, col))

\* `for col in cols: _fill_ot_entry(row, col)`
RECURSIVE FillRow(_, _, _)
FillRow(otf, row, cols) ==
    IF cols = <<>> THEN otf
    ELSE FillRow(fill_ot_entry(otf, row, Head(cols)), row, Tail(cols))

\* `for row in rows: for col in cols: _fill_ot_entry(row, col)`
RECURSIVE FillRows(_, _, _)
FillRows(otf, rows, cols) ==
    IF rows = <<>> THEN otf
    ELSE FillRows(FillRow(otf, Head(rows), cols), Tail(rows), cols)

\* [src+inp for (src, inp, _) in self.lookaheads]
LookaheadRows(L) == [k \in 1..Len(L) |-> L[k][1] \o L[k][2]]

\* the rows is_closed scans: the transitions, then (lookahead learner) the
\* lookahead rows
ScannedRows(kind, T, L) == IF kind = "lookahead" THEN T \o LookaheadRows(L) ELSE T

\* a plausible slip: only the first column is compared
RowsEqualFirstColumn(otf, E, a, b) == otf[a][E[1]] = otf[b][E[1]]

\* a plausible slip: `is` for `==`, two rows are the same only when they are
\* the row of the same word
RowsEqualSameWord(otf, E, a, b) == a = b

\* self.ot[acc_str] == self.ot[trans]: the two row dictionaries are equal
RowsEqual(otf, E, a, b) == otf[a] = otf[b]

\* a plausible slip: the row is compared with the newest access string only
MatchingAccessNewest(otf, E, S, row) ==
    IF RowsEqual(otf, E, S[Len(S)], row) THEN Len(S) ELSE 0

\* 1-based position of the first access string whose row equals row's, 0 if none
MatchingAccess(otf, E, S, row) ==
    IF \E k \in 1..Len(S) : RowsEqual(otf, E, S[k], row)
    THEN CHOOSE k \in 1..Len(S) :
            /\ RowsEqual(otf, E, S[k], row)
            /\ \A j \in 1..(k-1) : ~RowsEqual(otf, E, S[j], row)
    ELSE 0

\* the loop of is_closed over rows[k..]; eqc is equiv_classes as updated so far
RECURSIVE IsClosedLoop(_, _, _, _, _, _)

\* one iteration: m is the position of the matching access string (0: none)
IsClosedStep(otf, E, S, rows, k, eqc, m) ==
    IF m = 0
    THEN [closed |-> FALSE, escaping |-> rows[k], eqc |-> eqc]
    ELSE IsClosedLoop(otf, E, S, rows, k + 1, (rows[k] :> S[m]) @@ eqc)

IsClosedLoop(otf, E, S, rows, k, eqc) ==
    IF k > Len(rows) THEN [closed |-> TRUE, escaping |-> None, eqc |-> eqc]
    ELSE IsClosedStep(otf, E, S, rows, k, eqc,
                      MatchingAccess(otf, E, S, rows[k]))

\* _ObservationTable.is_closed
is_closed(kind, otf, E, S, T, L, eqc) ==
    IsClosedLoop(otf, E, S, ScannedRows(kind, T, L), 1, eqc)

\* a plausible slip: the first symbol of I only, as if the loop over I were
\* left after one round
ExtensionsFirst(row) == << Append(row, I[1]) >>

\* [escaping_str + (i,) for i in self.I]
Extensions(row) == [k \in 1..Len(I) |-> Append(row, I[k])]

-----------------------------------------------------------------------------
(* Hypothesis construction *)

\* a plausible slip: the table cell is used as the output label as it is
ArcOutputRaw(cell) == cell

\* lines 345-348: [EPSILON] for an empty cell, else the cell's symbols
ArcOutput(cell) == IF cell = <<>> THEN << EPSILON >> ELSE cell

\* the nested loops `for access_string in S: for i in I:` flattened: step n
\* handles access string n div |I| and symbol n mod |I|
RECURSIVE SymbolArcs(_, _, _, _, _)

\* a plausible slip: every arc is attached to the state the arc leads to
SymbolArcAtDestination(t, otf, S, eqc, n, access_string, i) ==
    SymbolArcs(add_arc(t, IndexOf(eqc[Append(access_string, i)], S),
                       IndexOf(eqc[Append(access_string, i)], S),
                       << i >>, ArcOutput(otf[access_string][<< i >>])),
               otf, S, eqc, n + 1)

\* a plausible slip: dst_id is computed from access_string, not from dst, so
\* that every arc is a self-loop
SymbolArcSelfLoop(t, otf, S, eqc, n, access_string, i) ==
    SymbolArcs(add_arc(t, IndexOf(access_string, S),
                       IndexOf(access_string, S),
                       << i >>, ArcOutput(otf[access_string][<< i >>])),
               otf, S, eqc, n + 1)

\* one iteration of the loops: lines 337-349
SymbolArc(t, otf, S, eqc, n, access_string, i) ==
    SymbolArcs(add_arc(t, IndexOf(access_string, S),
                       IndexOf(eqc[Append(access_string, i)], S),
                       << i >>, ArcOutput(otf[access_string][<< i >>])),
               otf, S, eqc, n + 1)

SymbolArcs(t, otf, S, eqc, n) ==
    IF n >= Len(S) * Len(I) THEN t
    ELSE SymbolArc(t, otf, S, eqc, n,
                   S[(n \div Len(I)) + 1], I[(n % Len(I)) + 1])

\* `for (src, inp, out) in self.ot.lookaheads:` from the k-th triple on
RECURSIVE LookaheadArcs(_, _, _, _, _)

\* a plausible slip: the loop over the lookahead list is missing
LookaheadArcsNone(t, S, L, eqc, k) == t

\* a plausible slip: the arc is labelled with the first lookahead symbol only
LookaheadArcFirstSymbol(t, S, L, eqc, k, src, inp, out) ==
    LookaheadArcs(add_arc(t, IndexOf(src, S), IndexOf(eqc[src \o inp], S),
                          << inp[1] >>, out),
                  S, L, eqc, k + 1)

\* one iteration of the loop, for the triple (src, inp, out)
LookaheadArc(t, S, L, eqc, k, src, inp, out) ==
    LookaheadArcs(add_arc(t, IndexOf(src, S), IndexOf(eqc[src \o inp], S),
                          inp, out),
                  S, L, eqc, k + 1)

LookaheadArcs(t, S, L, eqc, k) ==
    IF k > Len(L) THEN t
    ELSE LookaheadArc(t, S, L, eqc, k, L[k][1], L[k][2], L[k][3])

\* every equiv_classes lookup of _construct_hypothesis finds its key
\* (otherwise the lookup raises KeyError)
ClassesDefined(kind, S, L, eqc) ==
    /\ \A k \in 1..Len(S) : \A a \in 1..Len(I) :
          Append(S[k], I[a]) \in DOMAIN eqc
    /\ kind = "lookahead" =>
          \A k \in 1..Len(L) : (L[k][1] \o L[k][2]) \in DOMAIN eqc

\* _construct_hypothesis of the Mealy learner (kind "mealy") and of the
\* lookahead learner (kind "lookahead")
construct_hypothesis(kind, otf, S, L, eqc) ==
    IF kind = "lookahead"
    THEN LookaheadArcs(SymbolArcs(Transducer, otf, S, eqc, 0), S, L, eqc, 1)
    ELSE SymbolArcs(Transducer, otf, S, eqc, 0)

-----------------------------------------------------------------------------
(* Counterexample processing: Shahbaz-Groz *)

\* a plausible slip: maxlen is never raised (`<` for `>` in line 292)
MaxCommonNever(cex, S, k, maxlen) == maxlen

\* the loop `for row in access_strings` computing maxlen
RECURSIVE MaxCommon(_, _, _, _)
MaxCommon(cex, S, k, maxlen) ==
    IF k > Len(S) THEN maxlen
    ELSE IF S[k] = <<>> THEN MaxCommon(cex, S, k + 1, maxlen)
    ELSE MaxCommon(cex, S, k + 1,
                   Max(maxlen, Len(commonprefix(cex, S[k]))))

\* the loop `for c in reversed(ce[maxlen:])`: step n handles the suffix of
\* length n; tab = [E, ot]; rows are the rows filled for every suffix
RECURSIVE SuffixLoop(_, _, _, _, _)

\* a plausible slip: the new suffix is put in front of E (insert(0, suff))
SuffixStepInFront(tab, cex, maxlen, rows, n, suff) ==
    SuffixLoop([E  |-> IF InList(suff, tab.E) THEN tab.E ELSE << suff >> \o tab.E,
                ot |-> FillRows(tab.ot, rows, << suff >>)],
               cex, maxlen, rows, n + 1)

SuffixStep(tab, cex, maxlen, rows, n, suff) ==
    SuffixLoop([E  |-> IF InList(suff, tab.E) THEN tab.E ELSE Append(tab.E, suff),
                ot |-> FillRows(tab.ot, rows, << suff >>)],
               cex, maxlen, rows, n + 1)

SuffixLoop(tab, cex, maxlen, rows, n) ==
    IF n > Len(cex) - maxlen THEN tab
    ELSE SuffixStep(tab, cex, maxlen, rows, n, From(cex, Len(cex) - n))

\* a plausible slip: the loop over the suffixes is left after its first round,
\* so that only the last symbol of the counterexample is handled
process_ce_sg_once(kind, otf, E, S, T, L, cex) ==
    SuffixLoop([E |-> E, ot |-> otf], << cex[Len(cex)] >>, 0,
               (S \o T) \o (IF kind = "lookahead" THEN LookaheadRows(L) ELSE <<>>),
               1)

\* _process_ce_sg, and lines 337-362 of _process_counterexample:
\* the new [E, ot]
process_ce_sg(kind, otf, E, S, T, L, cex) ==
    SuffixLoop([E |-> E, ot |-> otf], cex, MaxCommon(cex, S, 1, 0),
               (S \o T) \o (IF kind = "lookahead" THEN LookaheadRows(L) ELSE <<>>),
               1)

-----------------------------------------------------------------------------
(* Counterexample processing: Rivest-Schapire (Mealy learner) *)

\* `arc.ilabel == inp[i]` (angluin_fst.py line 210): arc.ilabel is the list
\* [int(a)] built by _construct_hypothesis, inp[i] is an int; in Python a
\* list never equals an int
LabelIsSymbol(ilabel, sym) == FALSE

\* the arcs on which the test of line 210 succeeds
Hits(arcs, sym) == {k \in 1..Len(arcs) : LabelIsSymbol(arcs[k].ilabel, sym)}

LastOf(arcs, hits) ==
    IF hits = {} THEN -1
    ELSE arcs[CHOOSE k \in hits : \A j \in hits : j <= k].nextstate

\* the state reached by the inner loop `for arc in state.arcs` (which has no
\* break: the last arc whose test succeeds wins); -1 when no test succeeds
LastHit(arcs, sym) == LastOf(arcs, Hits(arcs, sym))

\* the loop `for i in range(index)` of the Mealy _run_in_hypothesis;
\* s_index = -1 stands for the local s_index not being bound yet
RECURSIVE RunMealyLoop(_, _, _, _, _, _)

RunMealyStep(h, inp, index, i, state, s_index, nxt) ==
    IF nxt = -1
    THEN RunMealyLoop(h, inp, index, i + 1, state, s_index)
    ELSE RunMealyLoop(h, inp, index, i + 1, nxt, nxt)

RunMealyLoop(h, inp, index, i, state, s_index) ==
    IF i >= index THEN s_index
    ELSE RunMealyStep(h, inp, index, i, state, s_index,
                      LastHit(h.states[state + 1].arcs, inp[i + 1]))

\* line 215: access_strings[s_index], "UnboundLocalError" when s_index was
\* never assigned
AccessStringAt(S, s_index) ==
    IF s_index = -1 THEN << "UnboundLocalError", None >>
    ELSE << "ok", S[s_index + 1] >>

\* MealyMachineLearner._run_in_hypothesis: << "ok", access string >>, or
\* "UnboundLocalError"
run_in_hypothesis_mealy(h, S, inp, index) ==
    AccessStringAt(S, RunMealyLoop(h, inp, index, 0, 0, -1))

\* MealyMachineLearner._check_suffix
check_suffix(inp, access_string, index) ==
    AfterCommonPrefix(membership_query(access_string),
                      membership_query(access_string \o From(inp, index)))
    # AfterCommonPrefix(membership_query(Slice(inp, 0, index)),
                        membership_query(inp))

\* the `while True` loop of _process_ce_rs: << "ok", diff >> at the break, or
\* the exception raised on the way
RECURSIVE RsLoop(_, _, _, _, _)

\* lines 264-265 with the updated same and diff
RsBreak(h, S, cex, same, diff) ==
    IF diff - same = 1 THEN << "ok", diff >> ELSE RsLoop(h, S, cex, same, diff)

\* lines 259-263 with r the outcome of _run_in_hypothesis(ce, i)
RsStep(h, S, cex, same, diff, i, r) ==
    IF r[1] # "ok" THEN << r[1], diff >>
    ELSE IF check_suffix(cex, r[2], i)
    THEN RsBreak(h, S, cex, same, i)
    ELSE RsBreak(h, S, cex, i, diff)

RsAt(h, S, cex, same, diff, i) ==
    RsStep(h, S, cex, same, diff, i, run_in_hypothesis_mealy(h, S, cex, i))

RsLoop(h, S, cex, same, diff) ==
    RsAt(h, S, cex, same, diff, (same + diff) \div 2)

\* lines 266-270 with r the outcome of the loop; on an exception the table is
\* untouched
RsAddSuffix(otf, E, S, T, cex, r) ==
    IF r[1] # "ok" THEN [status |-> r[1], E |-> E, ot |-> otf]
    ELSE [status |-> "ok", E |-> Append(E, From(cex, r[2])),
          ot |-> FillRows(otf, S \o T, << From(cex, r[2]) >>)]

\* _process_ce_rs: [status, E, ot]
process_ce_rs(h, otf, E, S, T, cex) ==
    RsAddSuffix(otf, E, S, T, cex, RsLoop(h, S, cex, 0, Len(cex)))

-----------------------------------------------------------------------------
(* Lookahead detection (lookahead learner) *)

\* _remove_common_prefix
remove_common_prefix(main, prefix) == From(main, Len(commonprefix(main, prefix)))

\* prefix_set[k] of _check_lookahead: [] for k = 0, MQ(inp[:k]) otherwise
PrefixSet(inp, k) == IF k = 0 THEN <<>> ELSE membership_query(Slice(inp, 0, k))

\* the loop of TransducerLearner._run_in_hypothesis: the state index reached,
\* or -1 when no arc matches (raise Exception('Invalid Input'))
RECURSIVE RunLookaheadLoop(_, _, _, _, _)

RunLookaheadStep(h, inp, index, i, arcs, k) ==
    IF k = 0 THEN -1
    ELSE RunLookaheadLoop(h, inp, index, i + Len(arcs[k].ilabel),
                          arcs[k].nextstate)

RunLookaheadFrom(h, inp, index, i, arcs) ==
    RunLookaheadStep(h, inp, index, i, arcs, FirstMatch(arcs, inp, i))

RunLookaheadLoop(h, inp, index, i, s_index) ==
    IF ~(i # Len(inp) /\ i < index) THEN s_index
    ELSE RunLookaheadFrom(h, inp, index, i,
                          sorted_arcs(h.states[s_index + 1].arcs))

\* line 321: access_strings[s_index], or the exception of line 318
AccessStringOrInvalid(S, s_index) ==
    IF s_index = -1 THEN << "invalid", None >> ELSE << "ok", S[s_index + 1] >>

\* TransducerLearner._run_in_hypothesis
run_in_hypothesis(h, S, inp, index) ==
    AccessStringOrInvalid(S, RunLookaheadLoop(h, inp, index, 0, 0))

\* commonprefix([prefix_set[i], prefix_set[j]]) == prefix_set[j]
OutputExtends(inp, i, j) ==
    commonprefix(PrefixSet(inp, i), PrefixSet(inp, j)) = PrefixSet(inp, j)

\* a plausible slip: the lookahead is taken from the start of the input
LookaheadStartZero(inp, i) == 0

\* lines 265-268: the first j in reversed(xrange(i)) whose output is a prefix
\* of prefix_set[i] (j = 0 always qualifies: prefix_set[0] = [])
LookaheadStart(inp, i) ==
    CHOOSE j \in 0..(i - 1) :
        /\ OutputExtends(inp, i, j)
        /\ \A m \in (j + 1)..(i - 1) : ~OutputExtends(inp, i, m)

\* the loop `for i in xrange(1, len(prefix_set))` of _check_lookahead from
\* position i on: "add" with the triple to add, "none" when the loop ends
\* without adding, "invalid" when _run_in_hypothesis raises
RECURSIVE CheckLookaheadLoop(_, _, _, _, _)

\* a plausible slip: the candidate is added without the test of line 277
CheckCandidateUnvalidated(h, S, L, inp, i, access_string, la_inp, la_out) ==
    IF InList(<< access_string, la_inp, la_out >>, L)
    THEN CheckLookaheadLoop(h, S, L, inp, i + 1)
    ELSE [status |-> "add", triple |-> << access_string, la_inp, la_out >>]

\* lines 277-288 for the candidate (access_string, la_inp, la_out)
CheckCandidate(h, S, L, inp, i, access_string, la_inp, la_out) ==
    IF remove_common_prefix(membership_query(access_string \o la_inp),
                            membership_query(access_string)) # la_out
    THEN CheckLookaheadLoop(h, S, L, inp, i + 1)
    ELSE IF InList(<< access_string, la_inp, la_out >>, L)
    THEN CheckLookaheadLoop(h, S, L, inp, i + 1)
    ELSE [status |-> "add", triple |-> << access_string, la_inp, la_out >>]

\* lines 271-273 with r the outcome of _run_in_hypothesis(inp, j)
CheckAccess(h, S, L, inp, i, j, r) ==
    IF r[1] # "ok" THEN [status |-> "invalid", triple |-> <<>>]
    ELSE CheckCandidate(h, S, L, inp, i, r[2], Slice(inp, j, i),
                        remove_common_prefix(PrefixSet(inp, i), PrefixSet(inp, j)))

\* lines 263-271 for a detection at position i with start j
CheckDetected(h, S, L, inp, i, j) ==
    CheckAccess(h, S, L, inp, i, j, run_in_hypothesis(h, S, inp, j))

CheckLookaheadLoop(h, S, L, inp, i) ==
    IF i > Len(inp) THEN [status |-> "none", triple |-> <<>>]
    ELSE IF OutputExtends(inp, i, i - 1)
    THEN CheckLookaheadLoop(h, S, L, inp, i + 1)
    ELSE CheckDetected(h, S, L, inp, i, LookaheadStart(inp, i))

\* _check_lookahead
check_lookahead(h, S, L, inp) == CheckLookaheadLoop(h, S, L, inp, 1)

\* L with x placed at iteration position p (0-based): a Python set yields its
\* elements in hash-slot order, so a new element can show up anywhere relative
\* to the ones already there, which keep their relative order
InsertAt(L, p, x) == SubSeq(L, 1, p) \o << x >> \o SubSeq(L, p + 1, Len(L))

-----------------------------------------------------------------------------
(* The learner: learn_mealy_machine / learn_transducer, one action per     *)
(* statement of the loop                                                   *)

\* the words the equivalence oracle may hand out for hypothesis h: inputs on
\* which h and the target disagree (examples/basic_lookahead.py line 59)
Counterexamples(h) ==
    {w \in WordsOver(I, 1, MaxCeLen) :
        consume_input(h, w) # << "ok", membership_query(w) >>}

\* the words on which transducers are compared
TestWords == WordsOver(I, 0, MaxWordLen)

\* a ce_processing value that is neither CE_SG nor CE_RS
UnsupportedCe == 2

\* stands for a constructor call that passes no ce_processing argument
NoArgument == -1

\* what a client may pass as ce_processing to MealyMachineLearner(...)
CeArguments == {CE_SG, CE_RS, UnsupportedCe, NoArgument}

\* SwitchTarget, NestedTarget and WideTarget are handed to the lookahead
\* learner only, as examples/basic_lookahead.py does with its target
LookaheadLearnerTargets == {7, 8, 9}

\* a client is about to construct a learner for one of the targets: the
\* ce_processing argument is chosen (TransducerLearner takes none and always
\* processes counterexamples the Shahbaz-Groz way), no table exists yet
Init ==
    /\ learner \in {"mealy", "lookahead"}
    /\ ce_processing \in CeArguments
    /\ learner = "lookahead" => ce_processing = CE_SG
    /\ target \in 1..Len(Targets)
    /\ target \in LookaheadLearnerTargets => learner = "lookahead"
    /\ access_strings = None
    /\ transitions = None
    /\ dist_strings = None
    /\ lookaheads = None
    /\ ot = None
    /\ equiv_classes = None
    /\ hypothesis = NoTransducer
    /\ pc = "new"
    /\ closed = FALSE
    /\ escaping_str = None
    /\ found = FALSE
    /\ ce = None
    /\ ret = NoTransducer
    /\ exc = ""
    /\ eqs = 0
    /\ file = <<>>
    /\ loaded = << "none", NoTransducer >>
    /\ trd = Transducer
    /\ cin = <<>>
    /\ cout = << "none", <<>> >>
    /\ queries = <<>>

\* the default of the parameter: `ce_processing=CE_RS` (line 116)
CeProcessingOf(arg) == IF arg = NoArgument THEN CE_RS ELSE arg

\* a plausible slip: the final else branch is missing, every mode is taken
CeSupportedAny(mode) == TRUE

\* lines 131-138: the modes that do not reach `raise NotImplementedError`
CeSupported(mode) == mode = CE_SG \/ mode = CE_RS

\* __init__ for the mode the call resolves to: the raise of line 138, or
\* lines 140-143 and _ObservationTable.__init__
LearnerInitMode(mode) ==
    IF learner = "mealy" /\ ~CeSupported(mode)
    THEN /\ pc' = "raised"
         /\ exc' = "NotImplementedError"
         /\ UNCHANGED << ce_processing, access_strings, transitions,
                         dist_strings, lookaheads, ot, equiv_classes >>
    ELSE /\ ce_processing' = mode
         /\ access_strings' = <<>>
         /\ transitions' = <<>>
         /\ dist_strings' = I
         /\ lookaheads' = <<>>
         /\ ot' = <<>>
         /\ equiv_classes' = <<>>
         /\ pc' = "init"
         /\ exc' = exc

\* MealyMachineLearner.__init__ / TransducerLearner.__init__
LearnerInit ==
    /\ pc = "new"
    /\ LearnerInitMode(CeProcessingOf(ce_processing))
    /\ UNCHANGED << learner, target, hypothesis, closed, escaping_str, found,
                    ce, ret, eqs, file, loaded, trdVars,
                    queries >>

\* a plausible slip: _init_ot without `access_strings.append(())`
InitOtNoEmpty ==
    /\ pc = "init"
    /\ LET T == [k \in 1..Len(I) |-> << I[k] >>]
           E == [k \in 1..Len(I) |-> << I[k] >>]
       IN  /\ access_strings' = <<>>
           /\ transitions' = T
           /\ dist_strings' = E
           /\ ot' = FillRows(FillRow(ot, <<>>, E), T, E)
    /\ pc' = "closing"
    /\ UNCHANGED << learner, ce_processing, target, lookaheads, equiv_classes,
                    hypothesis, closed, escaping_str, found, ce, ret, exc, eqs,
                    file, loaded, trdVars,
                    queries >>

\* _init_ot
InitOt ==
    /\ pc = "init"
    /\ LET S == << <<>> >>
           T == [k \in 1..Len(I) |-> << I[k] >>]
           E == [k \in 1..Len(I) |-> << I[k] >>]
       IN  /\ access_strings' = S
           /\ transitions' = T
           /\ dist_strings' = E
           /\ ot' = FillRows(FillRow(ot, <<>>, E), T, E)
    /\ pc' = "closing"
    /\ UNCHANGED << learner, ce_processing, target, lookaheads, equiv_classes,
                    hypothesis, closed, escaping_str, found, ce, ret, exc, eqs,
                    file, loaded, trdVars,
                    queries >>

\* `closed, escaping_str = r` and the branch on closed, for the result r of
\* is_closed()
IsClosedResult(r) ==
    /\ pc = "closing"
    /\ closed' = r.closed
    /\ escaping_str' = r.escaping
    /\ equiv_classes' = r.eqc
    /\ pc' = IF r.closed THEN "construct" ELSE "close_ot"
    /\ UNCHANGED << learner, ce_processing, target, access_strings, transitions,
                    dist_strings, lookaheads, ot, hypothesis, found, ce, ret,
                    exc, eqs, file, loaded, trdVars,
                    queries >>

\* `closed, escaping_str = self.ot.is_closed()`
IsClosed ==
    IsClosedResult(is_closed(learner, ot, dist_strings, access_strings,
                             transitions, lookaheads, equiv_classes))

\* a plausible slip: the promoted row is put in front of the access strings
\* (insert(0, escaping_str))
CloseOtInFront ==
    /\ pc = "close_ot"
    /\ access_strings' = << escaping_str >> \o access_strings
    /\ transitions' = transitions \o Extensions(escaping_str)
    /\ ot' = FillRows(ot, Extensions(escaping_str), dist_strings)
    /\ pc' = "closing"
    /\ UNCHANGED << learner, ce_processing, target, dist_strings, lookaheads,
                    equiv_classes, hypothesis, closed, escaping_str, found, ce,
                    ret, exc, eqs, file, loaded, trdVars,
                    queries >>

\* a plausible slip: the promoted row is taken out of the transitions
CloseOtMoving ==
    /\ pc = "close_ot"
    /\ access_strings' = Append(access_strings, escaping_str)
    /\ transitions' = SelectSeq(transitions, LAMBDA t : t # escaping_str)
                          \o Extensions(escaping_str)
    /\ ot' = FillRows(ot, Extensions(escaping_str), dist_strings)
    /\ pc' = "closing"
    /\ UNCHANGED << learner, ce_processing, target, dist_strings, lookaheads,
                    equiv_classes, hypothesis, closed, escaping_str, found, ce,
                    ret, exc, eqs, file, loaded, trdVars,
                    queries >>

\* _close_ot(escaping_str)
CloseOt ==
    /\ pc = "close_ot"
    /\ access_strings' = Append(access_strings, escaping_str)
    /\ transitions' = transitions \o Extensions(escaping_str)
    /\ ot' = FillRows(ot, Extensions(escaping_str), dist_strings)
    /\ pc' = "closing"
    /\ UNCHANGED << learner, ce_processing, target, dist_strings, lookaheads,
                    equiv_classes, hypothesis, closed, escaping_str, found, ce,
                    ret, exc, eqs, file, loaded, trdVars,
                    queries >>

\* _construct_hypothesis() called when the learner is at position `at`: the
\* hypothesis, or the KeyError of the equiv_classes lookup (line 337), which
\* nothing catches
ConstructHypothesisAt(at) ==
    /\ pc = at
    /\ IF ClassesDefined(learner, access_strings, lookaheads, equiv_classes)
       THEN /\ hypothesis' = construct_hypothesis(learner, ot, access_strings,
                                                  lookaheads, equiv_classes)
            /\ pc' = "eq"
            /\ exc' = exc
       ELSE /\ hypothesis' = hypothesis
            /\ pc' = "raised"
            /\ exc' = "KeyError"
    /\ UNCHANGED << learner, ce_processing, target, access_strings, transitions,
                    dist_strings, lookaheads, ot, equiv_classes, closed,
                    escaping_str, found, ce, ret, eqs, file, loaded, trdVars,
                    queries >>

\* `self._hypothesis = self._construct_hypothesis()`, line 397 of
\* learn_mealy_machine and line 461 of learn_transducer
ConstructHypothesis == ConstructHypothesisAt("construct")

\* a plausible slip: the loop is left whatever the oracle answered
EquivalenceQueryIgnored ==
    /\ pc = "eq"
    /\ \/ /\ found' = TRUE
          /\ ce' = None
          /\ eqs' = eqs
       \/ /\ eqs < MaxEq
          /\ \E w \in Counterexamples(hypothesis) :
                /\ found' = FALSE
                /\ ce' = w
          /\ eqs' = eqs + 1
    /\ pc' = "return"
    /\ UNCHANGED << learner, ce_processing, target, access_strings, transitions,
                    dist_strings, lookaheads, ot, equiv_classes, hypothesis,
                    closed, escaping_str, ret, exc, file, loaded, trdVars,
                    queries >>

\* `found, ce = self.equivalence_query(self._hypothesis)` and `if found: break`.
\* The oracle either accepts or hands out a word on which the hypothesis and
\* the target disagree.
EquivalenceQuery ==
    /\ pc = "eq"
    /\ \/ /\ found' = TRUE
          /\ ce' = None
          /\ pc' = "return"
          /\ eqs' = eqs
       \/ /\ eqs < MaxEq
          /\ \E w \in Counterexamples(hypothesis) :
                /\ found' = FALSE
                /\ ce' = w
          /\ pc' = "process"
          /\ eqs' = eqs + 1
    /\ UNCHANGED << learner, ce_processing, target, access_strings, transitions,
                    dist_strings, lookaheads, ot, equiv_classes, hypothesis,
                    closed, escaping_str, ret, exc, file, loaded, trdVars,
                    queries >>

\* a plausible slip: the processing result is dropped: E and the table stay as they were
SgDoneDropped(tab) ==
    /\ dist_strings' = dist_strings
    /\ ot' = ot
    /\ pc' = "closing"
    /\ exc' = exc

\* the table after Shahbaz-Groz processing, tab = [E, ot]
SgDone(tab) ==
    /\ dist_strings' = tab.E
    /\ ot' = tab.ot
    /\ pc' = "closing"
    /\ exc' = exc

\* the table after Rivest-Schapire processing, r = [status, E, ot]; an
\* exception leaves learn_mealy_machine
RsDone(r) ==
    /\ dist_strings' = r.E
    /\ ot' = r.ot
    /\ pc' = IF r.status = "ok" THEN "closing" ELSE "raised"
    /\ exc' = IF r.status = "ok" THEN exc ELSE r.status

\* `self.process_counterexample(ce)` of the Mealy learner
ProcessCounterexampleMealy ==
    /\ pc = "process"
    /\ learner = "mealy"
    /\ IF ce_processing = CE_SG
       THEN SgDone(process_ce_sg(learner, ot, dist_strings, access_strings,
                                 transitions, lookaheads, ce))
       ELSE RsDone(process_ce_rs(hypothesis, ot, dist_strings, access_strings,
                                 transitions, ce))
    /\ UNCHANGED << learner, ce_processing, target, access_strings, transitions,
                    lookaheads, equiv_classes, hypothesis, closed, escaping_str,
                    found, ce, ret, eqs, file, loaded, trdVars,
                    queries >>

\* a plausible slip: _process_counterexample returns once a lookahead has
\* been added and its row filled
LookaheadAddedOnly(L2, row) ==
    /\ lookaheads' = L2
    /\ SgDone([E |-> dist_strings, ot |-> FillRow(ot, row, dist_strings)])

\* lines 281-286 and 337-362 once the lookahead c.triple is known to be new:
\* it enters the set (iteration position p), its row is filled, and the
\* Shahbaz-Groz suffixes are added with L2 the new lookahead list
LookaheadAdded(L2, row) ==
    /\ lookaheads' = L2
    /\ SgDone(process_ce_sg(learner, FillRow(ot, row, dist_strings),
                            dist_strings, access_strings, transitions, L2, ce))

\* _process_counterexample for the outcome c of _check_lookahead
LookaheadChecked(c) ==
    IF c.status = "invalid"
    THEN /\ pc' = "raised"
         /\ exc' = "Invalid Input"
         /\ UNCHANGED << lookaheads, dist_strings, ot >>
    ELSE IF c.status = "add"
    THEN \E p \in 0..Len(lookaheads) :
            LookaheadAdded(InsertAt(lookaheads, p, c.triple),
                           c.triple[1] \o c.triple[2])
    ELSE /\ lookaheads' = lookaheads
         /\ SgDone(process_ce_sg(learner, ot, dist_strings, access_strings,
                                 transitions, lookaheads, ce))

\* `self._process_counterexample(ce)` of the lookahead learner:
\* _check_lookahead, then the Shahbaz-Groz suffixes
ProcessCounterexampleLookahead ==
    /\ pc = "process"
    /\ learner = "lookahead"
    /\ LookaheadChecked(check_lookahead(hypothesis, access_strings, lookaheads, ce))
    /\ UNCHANGED << learner, ce_processing, target, access_strings, transitions,
                    equiv_classes, hypothesis, closed, escaping_str, found, ce,
                    ret, eqs, file, loaded, trdVars,
                    queries >>

\* `return self._hypothesis`
Return ==
    /\ pc = "return"
    /\ ret' = hypothesis
    /\ pc' = "done"
    /\ UNCHANGED << learner, ce_processing, target, access_strings, transitions,
                    dist_strings, lookaheads, ot, equiv_classes, hypothesis,
                    closed, escaping_str, found, ce, exc, eqs, file, loaded,
                    trdVars, queries >>

\* the caller saves the learned transducer (examples: sanitizer.save(...))
Save ==
    /\ pc = "done"
    /\ file' = save(ret)
    /\ pc' = "saved"
    /\ UNCHANGED << learner, ce_processing, target, access_strings, transitions,
                    dist_strings, lookaheads, ot, equiv_classes, hypothesis,
                    closed, escaping_str, found, ce, ret, exc, eqs, loaded,
                    trdVars, queries >>

\* a fresh Transducer loads the saved text
Load ==
    /\ pc = "saved"
    /\ loaded' = load(Transducer, file)
    /\ pc' = "loaded"
    /\ UNCHANGED << learner, ce_processing, target, access_strings, transitions,
                    dist_strings, lookaheads, ot, equiv_classes, hypothesis,
                    closed, escaping_str, found, ce, ret, exc, eqs, file,
                    trdVars, queries >>

Next ==
    \/ LearnerInit
    \/ InitOt
    \/ IsClosed
    \/ CloseOt
    \/ ConstructHypothesis
    \/ EquivalenceQuery
    \/ ProcessCounterexampleMealy
    \/ ProcessCounterexampleLookahead
    \/ Return
    \/ Save
    \/ Load

Spec == Init /\ [][Next]_vars

-----------------------------------------------------------------------------
(* A subclass or test that calls _construct_hypothesis() itself, on the    *)
(* table as it stands before is_closed() has been consulted                *)

\* _construct_hypothesis() on a table that has not been checked for closure
ConstructUnchecked == ConstructHypothesisAt("closing")

NextC ==
    \/ Next
    \/ ConstructUnchecked

SpecC == Init /\ [][NextC]_vars

-----------------------------------------------------------------------------
(* An equivalence oracle that is not confined to I: it may answer with a   *)
(* word of the target's domain that has a symbol the learner was not given *)

\* the words with a foreign symbol that the target maps and on which the
\* hypothesis h fails
ForeignCounterexamples(h) ==
    {w \in WordsOver(I \o << ForeignSymbol >>, 1, MaxCeLen) :
        /\ \E k \in 1..Len(w) : w[k] = ForeignSymbol
        /\ consume_input(Targets[target], w)[1] = "ok"
        /\ consume_input(h, w) # << "ok", membership_query(w) >>}

\* `found, ce = self.equivalence_query(self._hypothesis)` answered with such
\* a word
EquivalenceQueryForeign ==
    /\ pc = "eq"
    /\ eqs < MaxEq
    /\ \E w \in ForeignCounterexamples(hypothesis) :
          /\ found' = FALSE
          /\ ce' = w
    /\ pc' = "process"
    /\ eqs' = eqs + 1
    /\ UNCHANGED << learner, ce_processing, target, access_strings, transitions,
                    dist_strings, lookaheads, ot, equiv_classes, hypothesis,
                    closed, escaping_str, ret, exc, file, loaded, trdVars,
                    queries >>

NextF ==
    \/ Next
    \/ EquivalenceQueryForeign

SpecF == Init /\ [][NextF]_vars

-----------------------------------------------------------------------------
(* A learner whose membership oracle records its calls: after construction *)
(* a test calls _fill_ot_entry on entries of its choice                    *)

\* how many _fill_ot_entry calls the test makes
MaxFills == 2

\* the rows the test fills: the words of length 0 and 1 over the first two
\* symbols of I
FillRowWords == WordsOver(<< I[1], I[2] >>, 0, 1)

\* the columns the test fills
FillColWords == WordsOver(<< I[1], I[2] >>, 1, 1)

\* a plausible slip: one query per fill, the output of row + col is stored
\* whole
FillOtEntryOneQuery(row, col) ==
    /\ pc = "init"
    /\ Len(queries) < 2 * MaxFills
    /\ queries' = queries \o << row \o col >>
    /\ ot' = OtSet(ot, row, col, membership_query(row \o col))
    /\ UNCHANGED << learner, ce_processing, target, access_strings, transitions,
                    dist_strings, lookaheads, equiv_classes, hypothesis, pc,
                    closed, escaping_str, found, ce, ret, exc, eqs, file,
                    loaded, trdVars >>

\* _fill_ot_entry(row, col): membership_query(row), then
\* membership_query(row + col), then the assignment of the entry
FillOtEntry(row, col) ==
    /\ pc = "init"
    /\ Len(queries) < 2 * MaxFills
    /\ queries' = queries \o << row, row \o col >>
    /\ ot' = fill_ot_entry(ot, row, col)
    /\ UNCHANGED << learner, ce_processing, target, access_strings, transitions,
                    dist_strings, lookaheads, equiv_classes, hypothesis, pc,
                    closed, escaping_str, found, ce, ret, exc, eqs, file,
                    loaded, trdVars >>

FillSomeEntry == \E row \in FillRowWords, col \in FillColWords : FillOtEntry(row, col)

NextQ ==
    \/ LearnerInit
    \/ FillSomeEntry

SpecQ == Init /\ [][NextQ]_vars

-----------------------------------------------------------------------------
(* A free-standing Transducer: a client builds it with add_arc calls and   *)
(* then runs it on one input word                                          *)

ArcInputs == { <<0>>, <<1>>, <<0, 1>> }

ArcOutputs == { << EPSILON >>, <<1>> }

\* state indices passed as src and dst: with 2 after 0 a call creates the
\* intermediate state 1 as well
ArcStates == {0, 2}

RECURSIVE ArcCount(_)
ArcCount(states) ==
    IF states = <<>> THEN 0
    ELSE Len(Head(states).arcs) + ArcCount(Tail(states))

\* trd.add_arc(src, dst, inp, out)
AddArc ==
    /\ cout[1] = "none"
    /\ ArcCount(trd.states) < MaxArcs
    /\ \E src \in ArcStates, dst \in ArcStates,
          inp \in ArcInputs, out \in ArcOutputs :
          trd' = add_arc(trd, src, dst, inp, out)
    /\ UNCHANGED << cin, cout, learnerVars, queries >>

\* trd.consume_input(w)
ConsumeInput ==
    /\ cout[1] = "none"
    /\ \E w \in TestWords :
          /\ cin' = w
          /\ cout' = consume_input(trd, w)
    /\ UNCHANGED << trd, learnerVars, queries >>

InitT ==
    /\ Init
    /\ learner = "mealy"
    /\ ce_processing = CE_RS
    /\ target = 1

NextT ==
    \/ AddArc
    \/ ConsumeInput

SpecT == InitT /\ [][NextT]_vars

-----------------------------------------------------------------------------
(* Longest-match simulation, stated from the data model: the arcs leaving  *)
(* a state whose input label equals the next symbols of the input, the     *)
(* longest of them, and every run that follows such arcs                   *)

\* the arcs (positions in arcs) whose whole input label is read at cursor i
MatchingArcs(arcs, inp, i) ==
    {k \in 1..Len(arcs) :
        /\ i + Len(arcs[k].ilabel) <= Len(inp)
        /\ \A n \in 1..Len(arcs[k].ilabel) : inp[i + n] = arcs[k].ilabel[n]}

\* those of them with the longest input label
LongestArcs(arcs, cands) ==
    {k \in cands : \A j \in cands : Len(arcs[j].ilabel) <= Len(arcs[k].ilabel)}

\* the outcomes of the runs from (state, i) with output out so far that take
\* a longest matching arc at every step: the outputs of the runs that reach
\* the end of inp, "stuck" for a run that meets a cursor with no matching arc
RECURSIVE LongestMatchRuns(_, _, _, _, _)

RunsOver(t, inp, i, out, arcs, best) ==
    IF best = {} THEN { << "stuck", <<>> >> }
    ELSE UNION { LongestMatchRuns(t, inp, arcs[k].nextstate,
                                  i + Len(arcs[k].ilabel),
                                  IF arcs[k].olabel = << EPSILON >> THEN out
                                  ELSE out \o arcs[k].olabel) : k \in best }

LongestMatchRuns(t, inp, state, i, out) ==
    IF i >= Len(inp) THEN { << "end", out >> }
    ELSE RunsOver(t, inp, i, out, t.states[state + 1].arcs,
                  LongestArcs(t.states[state + 1].arcs,
                              MatchingArcs(t.states[state + 1].arcs, inp, i)))

\* C2: when consume_input(w) returns, its result is the output of a run that
\* starts at state 0 and cursor 0, takes at every step a longest arc whose
\* input label equals the next symbols of w, advances by that label's length,
\* appends the output label unless it is exactly [EPSILON], and ends when the
\* cursor reaches the end of w; and the call fails only when such a run gets
\* stuck before the end of w.
C2_LongestMatchSemantics ==
    /\ cout[1] = "ok" =>
          << "end", cout[2] >> \in LongestMatchRuns(trd, cin, 0, 0, <<>>)
    /\ cout[1] = "invalid" =>
          << "stuck", <<>> >> \in LongestMatchRuns(trd, cin, 0, 0, <<>>)

\* a run on a word at whose first symbol a short and a longer arc both match
C2_Witness ==
    /\ cout[1] = "ok"
    /\ Len(cin) >= 2
    /\ \E k, j \in MatchingArcs(trd.states[1].arcs, cin, 0) :
          Len(trd.states[1].arcs[k].ilabel) < Len(trd.states[1].arcs[j].ilabel)
    /\ \E k \in MatchingArcs(trd.states[1].arcs, cin, 0) :
          trd.states[1].arcs[k].olabel = << EPSILON >>

\* C7: when the longest-match run of the input gets stuck (at some cursor no
\* arc leaving the current state matches the remaining input; where equal
\* labels leave a choice, whichever arc is taken), consume_input fails with
\* the invalid-input error and hands back no output, and the call leaves the
\* transducer as it was.
C7_StuckIsInvalidInput ==
    /\ [](cout[1] # "none"
            /\ LongestMatchRuns(trd, cin, 0, 0, <<>>) = { << "stuck", <<>> >> }
          => cout = << "invalid", cin >>)
    /\ [][cout' # cout => trd' = trd]_vars

\* a call that got stuck after an arc that emitted output had been taken
C7_Witness ==
    /\ cout[1] = "invalid"
    /\ Len(cin) >= 2
    /\ \E k \in MatchingArcs(trd.states[1].arcs, cin, 0) :
          trd.states[1].arcs[k].olabel # << EPSILON >>

-----------------------------------------------------------------------------
(* Claims about the learn loop *)

\* the rows is_closed scans, as a set
ScannedRowSet ==
    {transitions[k] : k \in 1..Len(transitions)}
    \cup (IF learner = "lookahead"
          THEN {lookaheads[k][1] \o lookaheads[k][2] : k \in 1..Len(lookaheads)}
          ELSE {})

\* every scanned row has, over E, the row vector of its equivalence class,
\* which is an access string
TableClosed ==
    \A row \in ScannedRowSet :
        /\ row \in DOMAIN equiv_classes
        /\ InList(equiv_classes[row], access_strings)
        /\ \A e \in 1..Len(dist_strings) :
              ot[equiv_classes[row]][dist_strings[e]] = ot[row][dist_strings[e]]

\* C1: an equivalence query is issued only on a hypothesis built right after
\* is_closed() returned true with no table change in between (the hypothesis
\* is constructed only in the step after a successful is_closed, from the
\* table that check saw, and nothing changes between its construction and the
\* query), and learn returns only after an accepted query, returning exactly
\* the hypothesis passed to it.
C1_QueryClosedReturnAccepted ==
    [][ /\ pc' = "construct" =>
              /\ pc = "closing" /\ closed'
              /\ UNCHANGED << access_strings, transitions, dist_strings,
                              lookaheads, ot >>
        /\ hypothesis' # hypothesis =>
              /\ pc = "construct" /\ pc' = "eq" /\ closed
              /\ UNCHANGED << access_strings, transitions, dist_strings,
                              lookaheads, ot, equiv_classes >>
        /\ pc' = "eq" => pc = "construct" /\ TableClosed'
        /\ pc = "eq" /\ pc' # "eq" =>
              /\ pc' = IF found' THEN "return" ELSE "process"
              /\ UNCHANGED << hypothesis, access_strings, transitions,
                              dist_strings, lookaheads, ot, equiv_classes >>
        /\ pc' = "return" => pc = "eq" /\ found'
        /\ ret' # ret => pc = "return" /\ found /\ ret' = hypothesis
        /\ pc' = "done" => found /\ ret' = hypothesis
      ]_vars

\* learn has returned after at least one rejected query
C1_Witness == pc = "done" /\ eqs >= 1 /\ Len(ret.states) >= 2

\* C3: whenever is_closed() returned (True, None), every row in T and every
\* lookahead row s.u has the row vector over E of some access string, and
\* equiv_classes maps the row to an access string with that row vector.
C3_ClosedTable == pc \in {"construct", "eq"} => closed /\ TableClosed

\* a closed table of the lookahead learner with a lookahead row, several
\* access strings and suffixes added by a counterexample
C3_Witness ==
    /\ pc = "construct"
    /\ Len(lookaheads) >= 1
    /\ Len(access_strings) >= 2
    /\ Len(dist_strings) > Len(I)

\* the arcs of transducer t, as a set
ArcsOf(t) ==
    UNION { {t.states[q].arcs[k] : k \in 1..Len(t.states[q].arcs)} :
            q \in 1..Len(t.states) }

\* C4: in every hypothesis built by _construct_hypothesis no state has two
\* outgoing arcs with equal input labels.
C4_Deterministic ==
    \A q \in 1..Len(hypothesis.states) :
        \A k, j \in 1..Len(hypothesis.states[q].arcs) :
            k # j => hypothesis.states[q].arcs[k].ilabel
                     # hypothesis.states[q].arcs[j].ilabel

\* a hypothesis with several states and a lookahead arc
C4_Witness ==
    /\ Len(hypothesis.states) >= 2
    /\ \E a \in ArcsOf(hypothesis) : Len(a.ilabel) >= 2

\* C5 (as claimed): every arc of every hypothesis has a non-empty input label
\* and an output label that is exactly [EPSILON] or a non-empty word without
\* EPSILON.
C5_OutputLabels ==
    \A a \in ArcsOf(hypothesis) :
        /\ Len(a.ilabel) >= 1
        /\ \/ a.olabel = << EPSILON >>
           \/ /\ a.olabel # <<>>
              /\ \A n \in 1..Len(a.olabel) : a.olabel[n] # EPSILON

\* C6: every hypothesis is total over the alphabet: every state has an arc
\* for every single symbol of I and consume_input succeeds on every word.
C6_Total ==
    hypothesis # NoTransducer =>
        /\ \A q \in 1..Len(hypothesis.states) : \A a \in 1..Len(I) :
              \E k \in 1..Len(hypothesis.states[q].arcs) :
                  hypothesis.states[q].arcs[k].ilabel = << I[a] >>
        /\ \A w \in TestWords : consume_input(hypothesis, w)[1] = "ok"

\* a hypothesis with several states and a lookahead arc is about to be queried
C6_Witness ==
    /\ pc = "eq"
    /\ Len(hypothesis.states) >= 3
    /\ \E a \in ArcsOf(hypothesis) : Len(a.ilabel) >= 2

\* C8 (as claimed): every counterexample processed by the Rivest-Schapire
\* procedure completes and strictly increases |E|: exactly one suffix of the
\* counterexample, not previously in E, is appended to the distinguishing
\* suffixes and its column is filled for every row in S and T.
C8_RivestSchapireCompletes ==
    [][ pc = "process" /\ learner = "mealy" /\ ce_processing = CE_RS
        /\ pc' # pc =>
            /\ pc' = "closing"
            /\ Len(dist_strings') = Len(dist_strings) + 1
            /\ SubSeq(dist_strings', 1, Len(dist_strings)) = dist_strings
            /\ ~InList(dist_strings'[Len(dist_strings')], dist_strings)
            /\ \E n \in 0..(Len(ce) - 1) :
                  dist_strings'[Len(dist_strings')] = From(ce, n)
            /\ \A k \in 1..Len(access_strings) :
                  dist_strings'[Len(dist_strings')]
                      \in DOMAIN ot'[access_strings[k]]
            /\ \A k \in 1..Len(transitions) :
                  dist_strings'[Len(dist_strings')]
                      \in DOMAIN ot'[transitions[k]]
      ]_vars

\* C10: for a transducer returned by a learner, save followed by load into a
\* fresh Transducer succeeds and yields a transducer with the same
\* consume_input outcome on every input word.
C10_SaveLoadRoundTrip ==
    pc = "loaded" =>
        /\ loaded[1] = "ok"
        /\ \A w \in TestWords :
              consume_input(loaded[2], w) = consume_input(ret, w)

\* a reloaded transducer with several states, an epsilon output, a lookahead
\* arc and an empty output label
C10_Witness ==
    /\ pc = "loaded"
    /\ Len(ret.states) >= 2
    /\ \E a \in ArcsOf(ret) : a.olabel = << EPSILON >>
    /\ \E a \in ArcsOf(ret) : Len(a.ilabel) >= 2 /\ a.olabel = <<>>

-----------------------------------------------------------------------------
(* Claims about what is learned *)

\* the targets that map every symbol to a fixed word whatever the context
ContextFreeTargets == {1, 5}

\* f(a) as an output label: [EPSILON] when the target emits nothing for a
SymbolLabel(a) ==
    IF membership_query(<< a >>) = <<>> THEN << EPSILON >>
    ELSE membership_query(<< a >>)

\* C11: for a target that maps every symbol a to a fixed word f(a), the Mealy
\* learner's hypothesis, and the transducer it returns, has exactly one state
\* whose arcs are, for each a in I, a self-loop 0 -> 0 with input [a] and
\* output f(a) ([EPSILON] when f(a) is empty), and no counterexample is
\* processed.
C11_ContextFreeOneState ==
    learner = "mealy" /\ target \in ContextFreeTargets
    /\ exc # "NotImplementedError" =>
        /\ eqs = 0
        /\ pc # "raised"
        /\ pc \in {"eq", "return", "done", "saved", "loaded"} =>
              /\ Len(hypothesis.states) = 1
              /\ hypothesis.states[1].arcs =
                    [k \in 1..Len(I) |->
                        [srcstate |-> 0, nextstate |-> 0,
                         ilabel |-> << I[k] >>, olabel |-> SymbolLabel(I[k])]]
        /\ pc \in {"done", "saved", "loaded"} => ret = hypothesis

\* the Mealy learner has returned for the target that doubles 0 and drops 1
C11_Witness ==
    /\ learner = "mealy"
    /\ target = 5
    /\ pc = "done"
    /\ Len(ret.states) = 1

\* the escaped symbol x and its encoding W of EscapeTarget
EscapedSymbol == << 0 >>

EscapeWord == << 0, 1, 1 >>

\* the lookahead learner runs on EscapeTarget
LearnsEscape == learner = "lookahead" /\ target = 3

\* learn_transducer has returned a transducer that a faithful oracle accepts:
\* no word up to MaxCeLen tells it from the target
FaithfullyAccepted == pc = "done" /\ Counterexamples(ret) = {}

\* C12 (as claimed): for the idempotent-escape target and a faithful oracle
\* the returned transducer has a lookahead arc with input label W, and
\* consume(W) = W and consume([x]) = W.
C12_LookaheadArcLabelledW ==
    LearnsEscape /\ FaithfullyAccepted =>
        /\ \E a \in ArcsOf(ret) : a.ilabel = EscapeWord
        /\ consume_input(ret, EscapeWord) = << "ok", EscapeWord >>
        /\ consume_input(ret, EscapedSymbol) = << "ok", EscapeWord >>

\* C12 (amended): for the idempotent-escape target 0 -> [0,1,1],
\* [0,1,1] -> [0,1,1] learn_transducer never raises, after MaxEq
\* counterexamples its hypothesis agrees with the target on every word up to
\* MaxCeLen (so a faithful oracle accepts), and an accepted transducer has a
\* lookahead arc whose input label is W without its first symbol, [1,1],
\* leaving the state reached by x, with consume(W) = W and consume([x]) = W.
C12_EscapeLearned ==
    LearnsEscape =>
        /\ pc # "raised"
        /\ pc = "eq" /\ eqs = MaxEq => Counterexamples(hypothesis) = {}
        /\ FaithfullyAccepted =>
              /\ \E a \in ArcsOf(ret) :
                    /\ a.ilabel = Tail(EscapeWord)
                    /\ a.srcstate # 0
              /\ \A a \in ArcsOf(ret) : a.ilabel # EscapeWord
              /\ consume_input(ret, EscapeWord) = << "ok", EscapeWord >>
              /\ consume_input(ret, EscapedSymbol) = << "ok", EscapeWord >>

\* a faithfully accepted transducer for EscapeTarget after two counterexamples
C12_Witness == LearnsEscape /\ FaithfullyAccepted /\ eqs >= 2

\* a Mealy learner, constructed with a supported mode, runs on HtmlEscapeTarget
LearnsHtmlEscape ==
    learner = "mealy" /\ target = 6 /\ exc # "NotImplementedError"

\* C13 (as claimed): learning the HTML-escape target over {'<','>','&','a'}
\* with the Mealy learner yields a transducer with at least 4 states.
C13_HtmlAtLeastFourStates ==
    LearnsHtmlEscape /\ pc = "done" => Len(ret.states) >= 4

\* C13 (amended): learning the HTML-escape target over {'<','>','&','a'} with
\* the Mealy learner yields a transducer with exactly one state, whose four
\* arcs are self-loops that output the entity of '<', '>' and '&' and 'a'
\* itself; no row is ever promoted (S stays {()}), and the learner returns
\* the transducer without failing.
C13_HtmlOneState ==
    LearnsHtmlEscape =>
        /\ pc # "raised"
        /\ Len(access_strings) <= 1
        /\ pc \in {"done", "saved", "loaded"} =>
              /\ Len(ret.states) = 1
              /\ ret.states[1].arcs =
                    << FstArc(0, 0, <<60>>, <<38, 108, 116, 59>>),
                       FstArc(0, 0, <<62>>, <<38, 103, 116, 59>>),
                       FstArc(0, 0, <<38>>, <<38, 97, 109, 112, 59>>),
                       FstArc(0, 0, <<97>>, <<97>>) >>

\* the Mealy learner has returned for the HTML-escape target
C13_Witness == LearnsHtmlEscape /\ pc = "done" /\ ret # NoTransducer

\* C14: constructing a MealyMachineLearner with a ce_processing value other
\* than CE_SG or CE_RS fails at once with the unsupported-strategy error,
\* before any observation table is created and before any query is issued;
\* with no ce_processing argument the Rivest-Schapire procedure is selected.
C14_UnsupportedStrategy ==
    /\ [][ pc = "new" /\ learner = "mealy" /\ pc' # pc =>
             /\ ce_processing \notin {CE_SG, CE_RS, NoArgument} =>
                   /\ pc' = "raised" /\ exc' = "NotImplementedError"
                   /\ UNCHANGED << access_strings, transitions, dist_strings,
                                   ot, equiv_classes, hypothesis, eqs, ret >>
             /\ ce_processing = NoArgument =>
                   pc' = "init" /\ ce_processing' = CE_RS
             /\ ce_processing \in {CE_SG, CE_RS} =>
                   pc' = "init" /\ ce_processing' = ce_processing ]_vars
    /\ [](exc = "NotImplementedError" =>
             /\ pc = "raised"
             /\ ot = None /\ dist_strings = None /\ access_strings = None
             /\ hypothesis = NoTransducer /\ eqs = 0)
    /\ [](learner = "mealy" /\ pc \notin {"new", "raised"} =>
             ce_processing \in {CE_SG, CE_RS})

\* the constructor has raised for the unsupported mode
C14_Witness ==
    /\ learner = "mealy"
    /\ ce_processing = UnsupportedCe
    /\ exc = "NotImplementedError"

-----------------------------------------------------------------------------
(* Claims about the Transducer data structure *)

\* the largest element of a non-empty set of numbers
MaxOf(S) == CHOOSE x \in S : \A y \in S : y <= x

\* every state index passed to add_arc so far: each call left an arc that
\* records its src and dst
IndicesPassed(t) ==
    {a.srcstate : a \in ArcsOf(t)} \cup {a.nextstate : a \in ArcsOf(t)}

\* the arcs of state number k (1-based) of t, none when t has no such state
ArcsAt(t, k) == IF k <= Len(t.states) THEN t.states[k].arcs ELSE <<>>

\* C15: after any sequence of add_arc calls the state count is
\* max(1, 1 + the largest src or dst ever passed), states[i].stateid = i,
\* state 0 is the only initial state, and each add_arc(src, dst, inp, out)
\* appends exactly one arc at the end of states[src].arcs and leaves every
\* arc added before (label, destination, position) unchanged.
C15_AddArcFrame ==
    /\ [](/\ Len(trd.states) =
               IF IndicesPassed(trd) = {} THEN 1
               ELSE Max(1, 1 + MaxOf(IndicesPassed(trd)))
          /\ \A k \in 1..Len(trd.states) :
                /\ trd.states[k].stateid = k - 1
                /\ trd.states[k].initial = (k = 1)
                /\ \A n \in 1..Len(trd.states[k].arcs) :
                      trd.states[k].arcs[n].srcstate = k - 1)
    /\ [][ trd' # trd =>
             \E q \in 1..Len(trd'.states) :
                /\ Len(trd'.states[q].arcs) = Len(ArcsAt(trd, q)) + 1
                /\ SubSeq(trd'.states[q].arcs, 1, Len(ArcsAt(trd, q)))
                      = ArcsAt(trd, q)
                /\ \A k \in 1..Len(trd'.states) :
                      k # q => trd'.states[k].arcs = ArcsAt(trd, k) ]_vars

\* two add_arc calls, one of which created the intermediate state 1
C15_Witness ==
    /\ Len(trd.states) = 3
    /\ ArcCount(trd.states) = 2
    /\ trd.states[2].arcs = <<>>
    /\ trd.states[1].arcs # <<>>
    /\ trd.states[3].arcs # <<>>

-----------------------------------------------------------------------------
(* Claims about hypothesis construction *)

\* a step that runs _construct_hypothesis: from the loop position before or
\* after is_closed() to the equivalence query or out of learn
ConstructionStep ==
    /\ pc \in {"closing", "construct"}
    /\ pc' \notin {pc, "construct", "close_ot"}

\* C16 (as claimed): hypothesis construction on a table with a missing
\* equivalence class is detected and aborts only that construction: the
\* learner goes back to closing the table, with no error and no hypothesis
\* taken from the failed construction.
C16_MissingClassRetried ==
    [][ ConstructionStep
        /\ ~ClassesDefined(learner, access_strings, lookaheads, equiv_classes)
        => pc' = "closing" /\ exc' = exc /\ hypothesis' = hypothesis ]_vars

\* how many arcs of the list arcs equal arc
CountArc(arcs, arc) == Cardinality({n \in 1..Len(arcs) : arcs[n] = arc})

\* the lookahead triples (positions in lookaheads) whose source is s
TriplesFrom(s) == {n \in 1..Len(lookaheads) : lookaheads[n][1] = s}

\* C17: the hypothesis built from a closed table has exactly |S| states,
\* state k standing for access_strings[k]; for each s in S and a in I it has
\* exactly one arc index(s) -> index(equiv_classes[s.a]) with input [a] and
\* output cell[s,(a,)] ([EPSILON] when the cell is empty); for each lookahead
\* triple (s,u,v) exactly one arc index(s) -> index(equiv_classes[s.u]) with
\* input u and output v; it has no other arcs and all states are final.
C17_HypothesisShape ==
    pc = "eq" =>
        /\ Len(hypothesis.states) = Len(access_strings)
        /\ \A k \in 1..Len(access_strings) :
              /\ hypothesis.states[k].stateid = k - 1
              /\ hypothesis.states[k].final
              /\ \A a \in 1..Len(I) :
                    CountArc(hypothesis.states[k].arcs,
                        [srcstate |-> k - 1,
                         nextstate |->
                            IndexOf(equiv_classes[Append(access_strings[k], I[a])],
                                    access_strings),
                         ilabel |-> << I[a] >>,
                         olabel |->
                            IF ot[access_strings[k]][<< I[a] >>] = <<>>
                            THEN << EPSILON >>
                            ELSE ot[access_strings[k]][<< I[a] >>]]) = 1
              /\ \A n \in TriplesFrom(access_strings[k]) :
                    CountArc(hypothesis.states[k].arcs,
                        [srcstate |-> k - 1,
                         nextstate |->
                            IndexOf(equiv_classes[lookaheads[n][1] \o lookaheads[n][2]],
                                    access_strings),
                         ilabel |-> lookaheads[n][2],
                         olabel |-> lookaheads[n][3]]) = 1
              /\ Len(hypothesis.states[k].arcs)
                    = Len(I) + Cardinality(TriplesFrom(access_strings[k]))

\* a hypothesis with three states and a lookahead arc is about to be queried
C17_Witness ==
    /\ pc = "eq"
    /\ Len(access_strings) >= 3
    /\ Len(lookaheads) >= 1
    /\ Len(hypothesis.states) >= 3

\* the rows of the table: S, T and the lookahead-extension rows
TableRows ==
    {access_strings[k] : k \in 1..Len(access_strings)}
        \cup {transitions[k] : k \in 1..Len(transitions)}
        \cup {lookaheads[k][1] \o lookaheads[k][2] : k \in 1..Len(lookaheads)}

\* c is f with the longest common prefix of p and f removed
IsOutputSuffix(c, p, f) ==
    \E n \in 0..Min(Len(p), Len(f)) :
        /\ \A m \in 1..n : p[m] = f[m]
        /\ n < Min(Len(p), Len(f)) => p[n + 1] # f[n + 1]
        /\ Len(c) = Len(f) - n
        /\ \A m \in 1..Len(c) : c[m] = f[n + m]

\* C18: whenever is_closed() is evaluated, for every row in S, T and the
\* lookahead-extension rows and every column e in E the cell is defined and
\* equals MQ(row ++ e) with the longest common prefix of MQ(row) and
\* MQ(row ++ e) removed.
C18_CellsAreOutputSuffixes ==
    pc = "closing" =>
        \A row \in TableRows :
            /\ row \in DOMAIN ot
            /\ \A n \in 1..Len(dist_strings) :
                  /\ dist_strings[n] \in DOMAIN ot[row]
                  /\ IsOutputSuffix(ot[row][dist_strings[n]],
                                    membership_query(row),
                                    membership_query(row \o dist_strings[n]))

\* is_closed() is about to be evaluated on a table with a lookahead row, a
\* column added by a counterexample, and a cell whose row output is not a
\* prefix of the output of row ++ e
C18_Witness ==
    /\ pc = "closing"
    /\ Len(lookaheads) >= 1
    /\ Len(dist_strings) > Len(I)
    /\ \E row \in TableRows : \E n \in 1..Len(dist_strings) :
          ~IsPrefixOf(membership_query(row),
                      membership_query(row \o dist_strings[n]))

\* every prefix of every word of the list S is in S
PrefixClosed(S) ==
    \A k \in 1..Len(S) : \A n \in 0..Len(S[k]) : InList(SubSeq(S[k], 1, n), S)

\* the constructor has returned: the learner has its table
Constructed == pc # "new" /\ exc # "NotImplementedError"

\* C19: at every point of a run of either learner the set S of access
\* strings is prefix-closed.
C19_AccessStringsPrefixClosed ==
    Constructed => PrefixClosed(access_strings)

\* w is a row s.a of T or a lookahead-extension row s.u for some s in S
ExtendsAccessString(w) ==
    \E j \in 1..Len(access_strings) :
        \/ \E a \in 1..Len(I) : w = Append(access_strings[j], I[a])
        \/ \E n \in TriplesFrom(access_strings[j]) :
              w = access_strings[j] \o lookaheads[n][2]

\* C19 as the code keeps it: once the table is initialised the empty word is
\* an access string and every other access string is s.a or s.u for an access
\* string s, a symbol a and a lookahead (s,u,_) in L; the access strings of
\* the Mealy learner are prefix-closed.
C19_AccessStringsExtendAccessStrings ==
    Constructed /\ pc # "init" =>
        /\ InList(<<>>, access_strings)
        /\ \A k \in 1..Len(access_strings) :
              Len(access_strings[k]) > 0 => ExtendsAccessString(access_strings[k])
        /\ learner = "mealy" => PrefixClosed(access_strings)

\* the lookahead learner has promoted a lookahead-extension row one of whose
\* prefixes is not an access string
C19_Witness ==
    /\ learner = "lookahead"
    /\ pc = "closing"
    /\ \E n \in 1..Len(lookaheads) :
          /\ InList(lookaheads[n][1] \o lookaheads[n][2], access_strings)
          /\ ~InList(Append(lookaheads[n][1], lookaheads[n][2][1]), access_strings)

\* the rows of the list T, as a set
TransitionSet == {transitions[k] : k \in 1..Len(transitions)}

\* C20: after initialization and after every promotion the transitions
\* collection T equals, as a set and with no row listed twice,
\* { s.a | s in S, a in I }.
C20_TransitionsAreExtensions ==
    Constructed /\ pc # "init" =>
        /\ TransitionSet
              = {Append(access_strings[k], I[a]) :
                    k \in 1..Len(access_strings), a \in 1..Len(I)}
        /\ Cardinality(TransitionSet) = Len(transitions)

\* a promotion has just taken place: is_closed() is about to scan the
\* extensions of three access strings
C20_Witness ==
    /\ pc = "closing"
    /\ Len(access_strings) >= 3
    /\ escaping_str = access_strings[Len(access_strings)]
    /\ Len(transitions) = 3 * Len(I)

\* a step of _close_ot
PromotionStep == pc = "close_ot" /\ pc' = "closing"

\* after the step every extension of r is a row of T whose cell is filled for
\* every column of E
ExtensionsFilled(r) ==
    \A a \in 1..Len(I) :
        /\ InList(Append(r, I[a]), transitions')
        /\ Append(r, I[a]) \in DOMAIN ot'
        /\ \A n \in 1..Len(dist_strings') :
              /\ dist_strings'[n] \in DOMAIN ot'[Append(r, I[a])]
              /\ IsOutputSuffix(ot'[Append(r, I[a])][dist_strings'[n]],
                                membership_query(Append(r, I[a])),
                                membership_query(Append(r, I[a]) \o dist_strings'[n]))

InitialSegment(a, b) == Len(a) <= Len(b) /\ SubSeq(b, 1, Len(a)) = a

\* C22: across a run of learn, after initialization, E, S, T and L only
\* grow: nothing is ever removed from them and the relative order of the
\* elements already in E, S and T never changes.
C22_CollectionsOnlyGrow ==
    [][ Constructed /\ pc # "init" =>
          /\ InitialSegment(dist_strings, dist_strings')
          /\ InitialSegment(access_strings, access_strings')
          /\ InitialSegment(transitions, transitions')
          /\ \A n \in 1..Len(lookaheads) : InList(lookaheads[n], lookaheads') ]_vars

\* each of E, S and L has grown since initialization, and T with S
C22_Witness ==
    /\ pc = "closing"
    /\ Len(dist_strings) >= Len(I) + 2
    /\ Len(access_strings) >= 2
    /\ Len(transitions) >= 2 * Len(I)
    /\ Len(lookaheads) >= 1

\* state 0 of transducer t is its initial state, and its only one
InitialIsStateZero(t) ==
    /\ Len(t.states) >= 1
    /\ \A k \in 1..Len(t.states) : t.states[k].initial <=> k = 1

\* C23: after initialization and in every later state of a run, the empty
\* word () is an access string and is the first one (index 0), so
\* hypothesis state 0, the initial state, always stands for ().
C23_EmptyWordFirst ==
    Constructed /\ pc # "init" =>
        /\ Len(access_strings) >= 1
        /\ access_strings[1] = <<>>
        /\ IndexOf(<<>>, access_strings) = 0
        /\ hypothesis # NoTransducer => InitialIsStateZero(hypothesis)
        /\ pc = "done" => InitialIsStateZero(ret)

\* a hypothesis with three states has been built after two promotions
C23_Witness ==
    /\ pc = "eq"
    /\ Len(access_strings) >= 3
    /\ Len(hypothesis.states) = Len(access_strings)
    /\ hypothesis.states[1].initial

\* the length of the longest common prefix of w and any non-empty access
\* string
LongestSharedPrefix(w) ==
    MaxOf({0} \cup {Len(commonprefix(w, access_strings[k])) :
                        k \in {j \in 1..Len(access_strings) :
                                    Len(access_strings[j]) > 0}})

\* the non-empty suffixes of w[m:], from shortest to longest
SuffixesFrom(w, m) == [n \in 1..(Len(w) - m) |-> SubSeq(w, Len(w) - n + 1, Len(w))]

\* those of them that are not in E yet
NewSuffixes(w, m) == SelectSeq(SuffixesFrom(w, m), LAMBDA x : ~InList(x, dist_strings))

\* a step of Shahbaz-Groz processing that completes
ShahbazGrozStep ==
    /\ pc = "process"
    /\ pc' = "closing"
    /\ learner = "lookahead" \/ ce_processing = CE_SG

\* after the step the column col is filled for every row of the table
ColumnFilled(col) ==
    \A row \in TableRows' :
        /\ row \in DOMAIN ot'
        /\ col \in DOMAIN ot'[row]
        /\ IsOutputSuffix(ot'[row][col], membership_query(row),
                          membership_query(row \o col))

\* C24: Shahbaz-Groz processing of ce, with m the length of the longest
\* common prefix of ce and any non-empty access string, leaves E equal to the
\* old E followed by every non-empty suffix of ce[m:] that was not already in
\* E, from shortest to longest, and fills the column of each such suffix for
\* every row in S and T and (lookahead learner) every lookahead-extension row.
C24_ShahbazGrozSuffixes ==
    [][ ShahbazGrozStep =>
          /\ dist_strings'
                = dist_strings \o NewSuffixes(ce, LongestSharedPrefix(ce))
          /\ \A n \in 1..(Len(ce) - LongestSharedPrefix(ce)) :
                ColumnFilled(SuffixesFrom(ce, LongestSharedPrefix(ce))[n]) ]_vars

\* a counterexample that shares a proper non-empty prefix with an access
\* string has just been processed: E ends with the remaining suffix, the
\* whole counterexample is no column
C24_Witness ==
    /\ pc = "closing"
    /\ eqs >= 1
    /\ learner = "lookahead" \/ ce_processing = CE_SG
    /\ Len(hypothesis.states) = Len(access_strings)
    /\ LongestSharedPrefix(ce) \in 1..(Len(ce) - 1)
    /\ dist_strings[Len(dist_strings)] = From(ce, LongestSharedPrefix(ce))
    /\ ~InList(ce, dist_strings)

\* _process_ce_rs is about to run on the counterexample ce
RivestSchapireCall == pc = "process" /\ learner = "mealy" /\ ce_processing = CE_RS

\* C25 (as claimed): for every counterexample of length >= 1 the
\* Rivest-Schapire binary search terminates with 0 <= same < diff <= len(ce)
\* and diff - same = 1, after which the suffix added is ce[diff:].
C25_BinarySearchExits ==
    RivestSchapireCall =>
        /\ RsLoop(hypothesis, access_strings, ce, 0, Len(ce))[1] = "ok"
        /\ RsLoop(hypothesis, access_strings, ce, 0, Len(ce))[2] \in 1..Len(ce)
        /\ process_ce_rs(hypothesis, ot, dist_strings, access_strings,
                         transitions, ce).E
              = Append(dist_strings,
                       From(ce, RsLoop(hypothesis, access_strings, ce, 0, Len(ce))[2]))

\* the hypothesis state reached from state 0 after the first i symbols of w,
\* following the arc labelled with each symbol
RECURSIVE StateAfter(_, _, _)
StateAfter(h, w, i) ==
    IF i = 0 THEN 0
    ELSE (CHOOSE a \in ArcsOf(h) :
              /\ a.srcstate = StateAfter(h, w, i - 1)
              /\ a.ilabel = << w[i] >>).nextstate

\* C26 (as claimed): in the Mealy learner _run_in_hypothesis(ce, i) returns,
\* for every 0 <= i <= len(ce), the access string of the hypothesis state
\* reached from state 0 after consuming the first i symbols of ce (the empty
\* access string when i = 0).
C26_RunInHypothesisAccessString ==
    RivestSchapireCall =>
        \A i \in 0..Len(ce) :
            run_in_hypothesis_mealy(hypothesis, access_strings, ce, i)
                = << "ok", access_strings[StateAfter(hypothesis, ce, i) + 1] >>

\* a call of the lookahead learner's _process_counterexample
LookaheadProcessingStep == pc = "process" /\ learner = "lookahead" /\ pc' # pc

\* C27: each call of the lookahead learner's _process_counterexample adds at
\* most one triple to L, and the Shahbaz-Groz suffix addition runs afterwards
\* in every case (a lookahead added, skipped, already present, not detected).
C27_OneLookaheadThenSuffixes ==
    [][ LookaheadProcessingStep =>
          /\ \A n \in 1..Len(lookaheads) : InList(lookaheads[n], lookaheads')
          /\ Len(lookaheads') <= Len(lookaheads) + 1
          /\ pc' = "closing"
          /\ dist_strings'
                = dist_strings \o NewSuffixes(ce, LongestSharedPrefix(ce))
          /\ \A n \in 1..(Len(ce) - LongestSharedPrefix(ce)) :
                \A row \in TableRows' :
                    SuffixesFrom(ce, LongestSharedPrefix(ce))[n]
                        \in DOMAIN ot'[row] ]_vars

\* the second counterexample has been processed: the table has a lookahead
\* and the suffixes of the counterexample are columns
C27_Witness ==
    /\ learner = "lookahead"
    /\ pc = "closing"
    /\ eqs = 2
    /\ Len(hypothesis.states) = Len(access_strings)
    /\ Len(lookaheads) >= 1
    /\ InList(From(ce, LongestSharedPrefix(ce)), dist_strings)
    /\ InList(<< ce[Len(ce)] >>, dist_strings)

\* MQ(w[:k])
OutputOfPrefix(w, k) == membership_query(SubSeq(w, 1, k))

\* i is a detection position of w and j the greatest position before i whose
\* output is a prefix of the output at i
DetectedAt(w, j, i) ==
    /\ ~IsPrefixOf(OutputOfPrefix(w, i - 1), OutputOfPrefix(w, i))
    /\ IsPrefixOf(OutputOfPrefix(w, j), OutputOfPrefix(w, i))
    /\ \A m \in (j + 1)..(i - 1) :
          ~IsPrefixOf(OutputOfPrefix(w, m), OutputOfPrefix(w, i))

\* what C28 says of a triple t = (s,u,v) added while w was processed
WellFormedLookahead(t, w) ==
    /\ InList(t[1], access_strings')
    /\ \E i \in 1..Len(w) : \E j \in 0..(i - 1) :
          /\ DetectedAt(w, j, i)
          /\ t[2] = SubSeq(w, j + 1, i)
          /\ t[3] = From(OutputOfPrefix(w, i), Len(OutputOfPrefix(w, j)))
    /\ Len(t[2]) >= 2
    /\ IsOutputSuffix(t[3], membership_query(t[1]), membership_query(t[1] \o t[2]))
    /\ t[1] \o t[2] \in DOMAIN ot'
    /\ \A n \in 1..Len(dist_strings') :
          /\ dist_strings'[n] \in DOMAIN ot'[t[1] \o t[2]]
          /\ IsOutputSuffix(ot'[t[1] \o t[2]][dist_strings'[n]],
                            membership_query(t[1] \o t[2]),
                            membership_query((t[1] \o t[2]) \o dist_strings'[n]))

\* C28: every lookahead triple (s,u,v) added to L has s in S, u = ce[j:i] for
\* a detection position i of the processed counterexample and the greatest
\* j < i such that MQ(ce[:j]) is a prefix of MQ(ce[:i]), so |u| >= 2; v is
\* MQ(ce[:i]) with MQ(ce[:j]) stripped and equals MQ(s ++ u) with its common
\* prefix with MQ(s) stripped; after the addition the row s.u is filled for
\* every column of E.
C28_LookaheadWellFormed ==
    [][ LookaheadProcessingStep =>
          \A n \in 1..Len(lookaheads') :
              ~InList(lookaheads'[n], lookaheads)
                  => WellFormedLookahead(lookaheads'[n], ce) ]_vars

\* a lookahead whose source is a non-empty access string has been added
C28_Witness ==
    /\ learner = "lookahead"
    /\ pc = "closing"
    /\ Len(hypothesis.states) = Len(access_strings)
    /\ \E n \in 1..Len(lookaheads) :
          /\ Len(lookaheads[n][1]) >= 1
          /\ lookaheads[n][2] = SubSeq(ce, Len(ce) - 1, Len(ce))

\* the position in inp at which the loop of TransducerLearner._run_in_hypothesis
\* (lines 305-318) stops: the number of symbols consumed; -1 on Invalid Input
RECURSIVE ConsumedBy(_, _, _, _, _)

ConsumedStep(h, inp, index, i, arcs, k) ==
    IF k = 0 THEN -1
    ELSE ConsumedBy(h, inp, index, i + Len(arcs[k].ilabel), arcs[k].nextstate)

ConsumedFrom(h, inp, index, i, arcs) ==
    ConsumedStep(h, inp, index, i, arcs, FirstMatch(arcs, inp, i))

ConsumedBy(h, inp, index, i, s_index) ==
    IF ~(i # Len(inp) /\ i < index) THEN i
    ELSE ConsumedFrom(h, inp, index, i, sorted_arcs(h.states[s_index + 1].arcs))

\* the candidate of _check_lookahead for a detection at position i of ce
CandidateAt(i) ==
    << run_in_hypothesis(hypothesis, access_strings, ce, LookaheadStart(ce, i))[2],
       Slice(ce, LookaheadStart(ce, i), i),
       remove_common_prefix(PrefixSet(ce, i), PrefixSet(ce, LookaheadStart(ce, i))) >>

\* _check_lookahead adds a lookahead at position i of ce (and breaks)
AddedAt(i) ==
    /\ ~OutputExtends(ce, i, i - 1)
    /\ remove_common_prefix(membership_query(CandidateAt(i)[1] \o CandidateAt(i)[2]),
                            membership_query(CandidateAt(i)[1])) = CandidateAt(i)[3]
    /\ ~InList(CandidateAt(i), lookaheads)

\* _check_lookahead calls _run_in_hypothesis(ce, j) for a detection at i
DetectionVisited(i) ==
    /\ ~OutputExtends(ce, i, i - 1)
    /\ \A m \in 1..(i - 1) : ~AddedAt(m)

\* C29 (as claimed): the source access string of a lookahead found at (j, i)
\* is that of the hypothesis state reached after consuming exactly the first
\* j symbols of the counterexample, also when the hypothesis has multi-symbol
\* arcs: _run_in_hypothesis(ce, j) never stops at a state reached by
\* consuming more than j symbols.
C29_SourceAfterExactlyJ ==
    pc = "process" /\ learner = "lookahead" =>
        \A i \in 1..Len(ce) :
            DetectionVisited(i) =>
                ConsumedBy(hypothesis, ce, LookaheadStart(ce, i), 0, 0)
                    = LookaheadStart(ce, i)

\* _run_in_hypothesis raises Invalid Input during the lookahead detection on ce
DetectionHitsInvalidInput ==
    /\ pc = "process"
    /\ learner = "lookahead"
    /\ check_lookahead(hypothesis, access_strings, lookaheads, ce).status = "invalid"

\* C30 (as claimed): if traversing the hypothesis during lookahead detection
\* hits a position with no matching arc (e.g. a counterexample with a symbol
\* outside I), the failure is caught inside _check_lookahead and treated as a
\* skip: counterexample processing continues with the suffix addition and
\* learn_transducer does not abort.
C30_InvalidInputSkipped ==
    [][ DetectionHitsInvalidInput /\ pc' # pc =>
          /\ pc' = "closing"
          /\ exc' = exc
          /\ lookaheads' = lookaheads
          /\ dist_strings'
                = dist_strings \o NewSuffixes(ce, LongestSharedPrefix(ce)) ]_vars

\* a call of _fill_ot_entry
FillStep == pc = "init" /\ pc' = "init" /\ queries' # queries

\* C31 (as claimed): each fill of one observation-table entry issues exactly
\* one membership query, and the engine keeps no cache of membership answers.
C31_OneQueryPerFill ==
    [][ FillStep => Len(queries') = Len(queries) + 1 ]_vars

\* the entry (row, col) holds what _fill_ot_entry stores in it
EntryHolds(otf, row, col) ==
    /\ row \in DOMAIN otf
    /\ col \in DOMAIN otf[row]
    /\ IsOutputSuffix(otf[row][col], membership_query(row),
                      membership_query(row \o col))

\* C31 as the code does it: each fill of an entry (row, col) issues exactly
\* two membership queries, for row and then for row + col, also when the
\* table already holds the entry or an answer to the same query was received
\* before: nothing is cached.
C31_TwoQueriesPerFill ==
    [][ FillStep =>
          \E row \in FillRowWords, col \in FillColWords :
              /\ queries' = queries \o << row, row \o col >>
              /\ EntryHolds(ot', row, col) ]_vars

\* the same entry has been filled twice: both queries were issued again
C31_Witness ==
    /\ Len(queries) = 4
    /\ queries[3] = queries[1]
    /\ queries[4] = queries[2]
    /\ EntryHolds(ot, queries[1], SubSeq(queries[2], Len(queries[1]) + 1, Len(queries[2])))

-----------------------------------------------------------------------------
(* Claims about the distinctness of the access strings *)

\* the access strings whose row over E equals the row of the word row
MatchesOf(row) ==
    {k \in 1..Len(access_strings) :
        RowsEqual(ot, dist_strings, access_strings[k], row)}

\* C32: in every state of a run of either learner no two distinct entries of
\* access_strings have the same row over E and no word is in access_strings
\* twice, so every scanned row (transition or lookahead row) matches at most
\* one access string
C32_AccessRowsDistinct ==
    Constructed /\ pc # "init" =>
        /\ \A k, j \in 1..Len(access_strings) :
              k # j => /\ access_strings[k] # access_strings[j]
                       /\ ~RowsEqual(ot, dist_strings, access_strings[k],
                                     access_strings[j])
        /\ \A row \in ScannedRowSet : Cardinality(MatchesOf(row)) <= 1

\* three access strings after a counterexample has grown E, and a scanned row
\* that matches one of them
C32_Witness ==
    /\ pc = "eq"
    /\ eqs >= 1
    /\ Len(access_strings) >= 3
    /\ Len(dist_strings) > Len(I)
    /\ \E row \in ScannedRowSet : Cardinality(MatchesOf(row)) = 1

-----------------------------------------------------------------------------
(* The Mealy learner with Shahbaz-Groz processing on Mealy-machine targets, *)
(* asked by a faithful equivalence oracle                                   *)

\* the targets that are Mealy machines: one output word per input symbol
\* and state, no arc with a longer input label
MealyTargets == {1, 2, 5, 6, 10, 11, 12, 13}

\* the number of pairwise-inequivalent states of a Mealy target
TargetStates == Len(Targets[target].states)

\* MealyMachineLearner(I, ce_processing=CE_SG) is about to be constructed for
\* a Mealy target
InitL ==
    /\ Init
    /\ learner = "mealy"
    /\ ce_processing = CE_SG
    /\ target \in MealyTargets

\* equivalence_query of a faithful oracle: it accepts iff the hypothesis
\* agrees with the target on every word, and otherwise returns a word on
\* which they disagree.  A run is followed for MaxEq counterexamples: with
\* one more it is cut off (pc = "cut") and counts as one that has not
\* returned.
EquivalenceQueryFaithful ==
    /\ pc = "eq"
    /\ IF Counterexamples(hypothesis) = {}
       THEN /\ found' = TRUE
            /\ ce' = None
            /\ pc' = "return"
            /\ eqs' = eqs
       ELSE \E w \in Counterexamples(hypothesis) :
               /\ found' = FALSE
               /\ ce' = w
               /\ pc' = IF eqs < MaxEq THEN "process" ELSE "cut"
               /\ eqs' = eqs + 1
    /\ UNCHANGED << learner, ce_processing, target, access_strings, transitions,
                    dist_strings, lookaheads, ot, equiv_classes, hypothesis,
                    closed, escaping_str, ret, exc, file, loaded, trdVars,
                    queries >>

\* learn_mealy_machine with the faithful oracle
NextL ==
    \/ LearnerInit
    \/ InitOt
    \/ IsClosed
    \/ CloseOt
    \/ ConstructHypothesis
    \/ EquivalenceQueryFaithful
    \/ ProcessCounterexampleMealy
    \/ Return

\* where control goes from position p of learn_mealy_machine: nowhere once
\* it has returned or raised
Successors(p) ==
    CASE p = "new"       -> {"init", "raised"}
      [] p = "init"      -> {"closing"}
      [] p = "closing"   -> {"close_ot", "construct"}
      [] p = "close_ot"  -> {"closing"}
      [] p = "construct" -> {"eq", "raised"}
      [] p = "eq"        -> {"return", "process", "cut"}
      [] p = "process"   -> {"closing", "raised"}
      [] p = "return"    -> {"done"}
      [] OTHER           -> {}

\* control moves on.  Every step of NextL moves pc to one of Successors(pc),
\* and at every position with successors one action of NextL can be taken, so
\* under [][NextL]_vars this is a step of NextL and it is enabled exactly
\* when NextL is.
ControlMoves == pc' \in Successors(pc)

\* the interpreter keeps running the learner and the oracle answers every
\* query: while the learner has neither returned nor raised, its next
\* statement is executed
SpecL == InitL /\ [][NextL]_vars /\ WF_pc(ControlMoves)

-----------------------------------------------------------------------------
(* Claims about learning with a faithful oracle *)

\* C33: for a Mealy target and a faithful equivalence oracle,
\* learn_mealy_machine with Shahbaz-Groz processing eventually returns
C33_EventuallyReturns == <>(pc = "done")

\* the learner has returned after it processed a counterexample, and the
\* returned machine agrees with the target
C33_Witness ==
    /\ pc = "done"
    /\ eqs >= 1
    /\ Len(ret.states) >= 2
    /\ Counterexamples(ret) = {}

\* the table is closed: every scanned row has the row of some access string
EveryRowMatches == \A row \in ScannedRowSet : MatchesOf(row) # {}

\* C34: in the Mealy learner with Shahbaz-Groz processing, a Mealy target and
\* a faithful oracle, processing a counterexample leaves the table not closed,
\* and every hypothesis submitted to the oracle has strictly more states than
\* the one submitted before it
C34_HypothesisGrows ==
    [][ /\ pc = "process" /\ pc' = "closing" => ~EveryRowMatches'
        /\ pc = "construct" /\ pc' = "eq" /\ eqs >= 1 =>
              /\ Len(hypothesis'.states) > Len(hypothesis.states)
              /\ Len(hypothesis'.states) = Len(access_strings) ]_vars

\* the third hypothesis for TwinTarget is submitted: one state at first,
\* three after the first counterexample, four after the second
C34_Witness ==
    /\ pc = "eq"
    /\ eqs = 2
    /\ target = 12
    /\ Len(hypothesis.states) = 4

\* C35: in the Mealy learner with a Mealy target of n pairwise-inequivalent
\* states the number of access strings, and so of hypothesis states, never
\* exceeds n; every promotion adds one access string, so the closing loop
\* makes at most n - |S| of them
C35_AccessStringsBounded ==
    Constructed /\ pc # "init" /\ learner = "mealy" /\ target \in MealyTargets =>
        /\ Len(access_strings) <= TargetStates
        /\ pc = "close_ot" => Len(access_strings) < TargetStates
        /\ pc \in {"eq", "process", "return"} =>
              Len(hypothesis.states) = Len(access_strings)

\* the closing loop is about to promote the fourth and last access string of
\* TwinTarget
C35_Witness ==
    /\ learner = "mealy"
    /\ target = 12
    /\ pc = "close_ot"
    /\ Len(access_strings) = TargetStates - 1

-----------------------------------------------------------------------------
(* Claims about the progress of the lookahead learner *)

\* C36: in learn_transducer with a faithful oracle, processing a returned
\* counterexample always changes the observation table: L gains a triple or E
\* gains at least one suffix
C36_ProcessingChangesTable ==
    [][ LookaheadProcessingStep /\ pc' = "closing" =>
            \/ Len(lookaheads') > Len(lookaheads)
            \/ Len(dist_strings') > Len(dist_strings) ]_vars

-----------------------------------------------------------------------------
(* Claims about the suffix of Rivest-Schapire processing *)

\* C37: for every genuine counterexample ce the binary search of
\* Rivest-Schapire processing ends with diff < len(ce), so that the suffix
\* ce[diff:] added to E is not empty
C37_SuffixNonEmpty ==
    RivestSchapireCall /\ target \in MealyTargets =>
        /\ RsLoop(hypothesis, access_strings, ce, 0, Len(ce))[1] = "ok"
        /\ RsLoop(hypothesis, access_strings, ce, 0, Len(ce))[2] < Len(ce)
        /\ From(ce, RsLoop(hypothesis, access_strings, ce, 0, Len(ce))[2]) # <<>>

-----------------------------------------------------------------------------
(* Claims about the hypothesis and its access strings *)

\* C38: in the Mealy learner with a Mealy target every hypothesis built from
\* a closed table is consistent with its access strings: for each k, the run
\* of the hypothesis on access_strings[k] from state 0 ends in state k, and
\* consume_input(access_strings[k]) equals membership_query(access_strings[k])
C38_HypothesisConsistent ==
    pc \in {"eq", "process", "return"} /\ learner = "mealy"
    /\ target \in MealyTargets =>
        \A k \in 1..Len(access_strings) :
            /\ StateAfter(hypothesis, access_strings[k],
                          Len(access_strings[k])) = k - 1
            /\ consume_input(hypothesis, access_strings[k])
                  = << "ok", membership_query(access_strings[k]) >>

\* a hypothesis with four states has been built for TwinTarget, the last of
\* them reached by the access string 1
C38_Witness ==
    /\ pc = "eq"
    /\ learner = "mealy"
    /\ target = 12
    /\ Len(hypothesis.states) = 4
    /\ access_strings[4] = << 1 >>
    /\ StateAfter(hypothesis, access_strings[4], 1) = 3

====
